---------------------------- MODULE Spec2Model ----------------------------
(***************************************************************************)
(* A model of the billing computation engine of erc-migration:             *)
(*   - the reaccural decomposition engine (lib/reaccural.py),              *)
(*   - the rounding of heating correction rows (lib/resultfile.py),        *)
(*   - the positive-correction installment walk (main.py).                 *)
(*                                                                         *)
(* Money is counted in mills (a tenth of a cent, 0.001): a ledger amount   *)
(* of two decimals is a multiple of 10, Decimal.quantize(Decimal("0.01"))  *)
(* and round(x, 2) round a mill amount to a multiple of 10.                *)
(***************************************************************************)
EXTENDS Integers, Sequences, FiniteSets, TLC

VARIABLES
    \* ---- account details table and GVS file on disk (reaccural part)
    details,         \* the rows of the service, by month: accural, reaccural
    gvs,             \* rows of the GVS file of the previous month
    account,         \* account number, a string given as its characters
    \* ---- the Reaccural object
    pc,              \* position inside Reaccural.__init__ / init_type
    date,            \* Reaccural.date
    reaccural_sum,   \* the reaccural_sum argument of __init__
    totalsum,        \* Reaccural.totalsum
    valid,           \* Reaccural.valid
    records,         \* Reaccural.records
    type,            \* Reaccural.type
    \* ---- heating correction rows
    rounding_error,  \* HeatingCorrectionResultRow.rounding_error[0]
    hpc,             \* "idle", or "row" once a correction row is built
    hrow,            \* the correction row built last
    account_rows,    \* the correction rows built for the current account
    error_start,     \* rounding_error when the current account began
    \* ---- positive heating correction (installment walk)
    osv_date,        \* self.osv_file.date, the month being processed
    year_correction, \* last_year_correction.year_correction
    wpc,             \* position inside _add_future_installment_records
    correction_type, \* HeatingPositiveCorrection.type, a set of flags
    account_closing_month,
    month_num,       \* the loop variable of the walk
    total_closing_balance,
    total_future_installment,
    rows,            \* the rows added to the calculations sheet
    \* ---- the heating correction branch of an account's month
    correction_month,    \* building_record.correction_month
    heating_corrections, \* HeatingCorrectionsFile.sheets
    bpc,                 \* position inside _process_heating_correction
    \* ---- the GVS rows of an account's month
    osv_accural,          \* self.osv.accural_record
    GvsIpuInstallDates,   \* lib/resultfile.py, GvsIpuInstallDates
    seen_opening_balance, \* account_details.seen_opening_balance
    gpc,                  \* position inside _process_gvs
    \* ---- the pass over the filled result table
    table_records,        \* FilledResultTable.records as read from the file
    active_sheet,         \* the cells of the sheet, by row number
    runs,                 \* the passes made over the table
    fpc,                  \* position inside decrease_closing_balance
    \* ---- the rows of the OSV files, one account's month after another
    instances,            \* SingletonWithArg._instances, by account
    opc,                  \* position inside _process_osv
    osv_rows,             \* the OSV rows read so far
    \* ---- the buildings table and the tariff of a row
    conf,                 \* the special tariffs of the region's config
    workbook,             \* the sheets of the buildings file, by year
    buildings,            \* the BuildingsFile object
    query,                \* the arguments of the last get_tariff call
    returned,             \* what the call returned or raised
    result_row,           \* the row built last, its first fields
    tpc,                  \* position: "new", "made", "asked"
    \* ---- a query of an account's details
    history,              \* AccountDetailsFileSingleton.records
    lookup,               \* the arguments of the last query
    answer,               \* what the query returned or raised
    lpc,                  \* position: "open", "asked"
    \* ---- the objects of the singleton classes
    singletons,           \* SingletonWithArg._instances, by key
    calls,                \* the calls made so far, each with its outcome
    \* ---- the run of the program over the sections of the config
    section,              \* the number of the section being processed
    region,               \* the RegionDir of the section
    file_num,             \* the place of the OSV file in region.osv_files
    line_num,             \* the data row of the OSV file processed last
    osv,                  \* what that row holds
    results,              \* the rows added to region.results
    passes,               \* the passes made over region.results
    saved,                \* the sections whose results were saved
    log,                  \* the levels of the messages logged
    exception,            \* the exception that left the program, or ""
    rpc,                  \* position inside __main__
    \* ---- the months reached from a month
    reached,              \* a MonthYear and those derived from it, in turn
    taken                 \* the properties taken, "previous" or "next"

reaccuralVars == <<details, gvs, account, pc, date, reaccural_sum, totalsum,
                   valid, records, type>>
heatingVars == <<rounding_error, hpc, hrow, account_rows, error_start>>
walkVars == <<osv_date, year_correction, wpc, correction_type,
              account_closing_month, month_num, total_closing_balance,
              total_future_installment, rows>>
correctionVars == <<correction_month, heating_corrections, bpc>>
\* the parts that the reaccural, the rounding and the walk leave alone
gvsVars == <<osv_accural, GvsIpuInstallDates, seen_opening_balance, gpc>>
filledVars == <<table_records, active_sheet, runs, fpc>>
monthVars == <<instances, opc, osv_rows>>
tariffVars == <<conf, workbook, buildings, query, returned, result_row,
                tpc>>
lookupVars == <<history, lookup, answer, lpc>>
singletonVars == <<singletons, calls>>
runVars == <<section, region, file_num, line_num, osv, results, passes,
             saved, log, exception, rpc>>
dateVars == <<reached, taken>>
extraVars == <<lookupVars, singletonVars, runVars, dateVars>>
exceptLookup == <<singletonVars, runVars, dateVars>>
exceptSingleton == <<lookupVars, runVars, dateVars>>
exceptRun == <<lookupVars, singletonVars, dateVars>>
exceptDate == <<lookupVars, singletonVars, runVars>>
restVars == <<monthVars, tariffVars, extraVars>>
laterVars == <<correctionVars, gvsVars, filledVars, restVars>>
vars == <<reaccuralVars, heatingVars, walkVars, laterVars>>

None == "None"

Abs(x) == IF x < 0 THEN -x ELSE x

(***************************************************************************)
(* lib/datatypes.py: MonthYear                                             *)
(***************************************************************************)
MonthYear(m, y) == [month |-> m, year |-> y]

\* previous with the year of January kept
previousInYear(d) ==
    IF d.month > 1 THEN MonthYear(d.month - 1, d.year)
    ELSE MonthYear(12, d.year)

previous(d) ==
    IF d.month > 1 THEN MonthYear(d.month - 1, d.year)
    ELSE MonthYear(12, d.year - 1)

next(d) ==
    IF d.month < 12 THEN MonthYear(d.month + 1, d.year)
    ELSE MonthYear(1, d.year + 1)

\* the month k months before d: k applications of previous
RECURSIVE Back(_, _)
Back(d, k) == IF k = 0 THEN d ELSE Back(previous(d), k - 1)

(***************************************************************************)
(* Decimal(x).quantize(Decimal("0.01")): the nearest cent, a half cent     *)
(* going to the even cent (ROUND_HALF_EVEN, the decimal context default).  *)
(***************************************************************************)
FloorDiv10(x) == IF x >= 0 THEN x \div 10 ELSE -((-x + 9) \div 10)

Quantize(x) ==
    LET lo == FloorDiv10(x) * 10
        r  == x - lo
    IN  IF r < 5 THEN lo
        ELSE IF r > 5 THEN lo + 10
        ELSE IF (lo \div 10) % 2 = 0 THEN lo ELSE lo + 10

(***************************************************************************)
(* Bounds and input sets of the reaccural part                             *)
(***************************************************************************)
MAX_DEPTH == 36
NearLen == 2                          \* recent months that may hold a row
FarOffsets == {MAX_DEPTH, MAX_DEPTH + 1}  \* old months that may hold a row
ReaccuralDate == MonthYear(2, 2023)
AccuralVals == {-10, 0, 10, 20}       \* ledger accurals, whole cents
FarVals == {0, 10, -10}
NextVals == {0, 10}
ReaccuralSums == {-20, -10, 0, 10}    \* ledger reaccurals, whole cents

NearMonths == {Back(ReaccuralDate, k) : k \in 1..NearLen}
FarMonths == {Back(ReaccuralDate, k) : k \in FarOffsets}
RowMonths == NearMonths \cup FarMonths \cup {next(ReaccuralDate)}

\* an account details table: the months that have a row of the service,
\* each with its accural
DetailsRow(a, r) == [accural |-> a, reaccural |-> r]

DetailTables ==
    UNION {{t \in [ms -> {DetailsRow(a, 0) : a \in AccuralVals}] :
               /\ \A m \in ms \cap FarMonths : t[m].accural \in FarVals
               /\ next(ReaccuralDate) \in ms
                      => t[next(ReaccuralDate)].accural \in NextVals} :
           ms \in SUBSET RowMonths}

(***************************************************************************)
(* lib/detailsfile.py: AccountDetailsFileSingleton                         *)
(***************************************************************************)
\* _get_month_service_row finds the row (case 1); with no row it raises
\* NoServiceRow (case 0)
HasRow(det, d) == d \in DOMAIN det

get_service_month_accural(det, d) == det[d].accural

get_service_month_reaccural(det, d) == det[d].reaccural

Reverse(s) == [i \in 1..Len(s) |-> s[Len(s) + 1 - i]]

ReaccuralMonthRec(d, s) == [date |-> d, sum |-> s]

(***************************************************************************)
(* lib/reaccural.py: Reaccural.try_decompose_to_zero                       *)
(* The result is the pair (valid, records) the method leaves in the        *)
(* object: it assigns both only on success.                                *)
(***************************************************************************)
Unchanged(v, r) == [valid |-> v, records |-> r]

ZeroReached(floating_sum) == floating_sum = 0

DepthLeftOneMore(i) == i < MAX_DEPTH + 1
DepthLeft(i) == i < MAX_DEPTH

RECURSIVE try_decompose_to_zero(_, _, _, _, _, _, _)
try_decompose_to_zero(det, d0, floating_sum, rec, i, v, r) ==
    IF ~DepthLeft(i) THEN Unchanged(v, r)
    ELSE
        LET d == previous(d0) IN
        IF ~HasRow(det, d)
        THEN try_decompose_to_zero(det, d, floating_sum, rec, i + 1, v, r)
        ELSE
            LET prev_accural == Quantize(get_service_month_accural(det, d))
                rec2 == Append(rec, ReaccuralMonthRec(d, prev_accural))
                fs   == floating_sum + prev_accural
            IN  IF ZeroReached(fs)
                THEN [valid |-> TRUE, records |-> Reverse(rec2)]
                ELSE try_decompose_to_zero(det, d, fs, rec2, i + 1, v, r)

(***************************************************************************)
(* lib/reaccural.py: Reaccural.try_decompose_to_previous_accurance         *)
(* Both lookups stand in one try block: a month whose own row exists but   *)
(* whose previous month has none is passed over by `continue`.             *)
(***************************************************************************)
RemainderFits(floating_sum, second_prev_accural) ==
    Abs(floating_sum) < second_prev_accural

RECURSIVE try_decompose_to_previous_accurance(_, _, _, _, _, _, _)
try_decompose_to_previous_accurance(det, d0, floating_sum, rec, i, v, r) ==
    IF ~DepthLeft(i) THEN Unchanged(v, r)
    ELSE
        LET d == previous(d0) IN
        IF ~HasRow(det, d) \/ ~HasRow(det, previous(d))
        THEN try_decompose_to_previous_accurance(det, d, floating_sum, rec,
                                                 i + 1, v, r)
        ELSE
            LET prev_accural == Quantize(get_service_month_accural(det, d))
                second_prev_accural ==
                    Quantize(get_service_month_accural(det, previous(d)))
                rec2 == Append(rec, ReaccuralMonthRec(d, prev_accural))
                fs   == floating_sum + prev_accural
            IN  IF RemainderFits(fs, second_prev_accural)
                THEN [valid |-> TRUE,
                      records |-> Reverse(Append(rec2,
                                     ReaccuralMonthRec(previous(d), Abs(fs))))]
                ELSE try_decompose_to_previous_accurance(det, d, fs, rec2,
                                                         i + 1, v, r)

(***************************************************************************)
(* lib/reaccural.py: Reaccural._change_records_sign                        *)
(***************************************************************************)
Negated(recs) ==
    [i \in 1..Len(recs) |-> ReaccuralMonthRec(recs[i].date, -recs[i].sum)]

change_records_sign_always(total, recs) == Negated(recs)
change_records_sign_never(total, recs) == recs
change_records_sign(total, recs) ==
    IF total < 0 THEN Negated(recs) ELSE recs

(***************************************************************************)
(* lib/helpers.py: BaseWorkBookData.as_filtered_list                       *)
(* zip(fields, values) pairs the i-th field with the i-th item that        *)
(* iterating `values` yields; a record passes when every paired field      *)
(* equals its item.                                                        *)
(***************************************************************************)
Min(a, b) == IF a < b THEN a ELSE b

check_fields(record, fields, values) ==
    \A i \in 1..Min(Len(fields), Len(values)) : record[fields[i]] = values[i]

as_filtered_list(recs, fields, values) ==
    SelectSeq(recs, LAMBDA record : check_fields(record, fields, values))

\* iterating a tuple (x,) yields x; iterating a str yields its characters,
\* each a str of length one
TupleOf(x) == <<x>>
StrItems(str) == [i \in 1..Len(str) |-> <<str[i]>>]

(***************************************************************************)
(* lib/reaccural.py: Reaccural.init_type                                   *)
(* `(self.account_data.account)` is the account str itself, not a tuple.   *)
(***************************************************************************)
IPU == "IPU"
AVERAGE == "AVERAGE"
NORMATIVE == "NORMATIVE"

RowType(row) ==
    IF row.consumption_average # 0 THEN AVERAGE
    ELSE IF row.consumption_ipu # 0 THEN IPU
    ELSE NORMATIVE

init_type_values(acc) == StrItems(acc)

init_type(gvs_details, acc) ==
    LET gvs_details_rows ==
            as_filtered_list(gvs_details, <<"account">>, init_type_values(acc))
    IN  IF Len(gvs_details_rows) = 0 THEN NORMATIVE
        ELSE RowType(gvs_details_rows[1])

(***************************************************************************)
(* Input sets of the classification                                        *)
(***************************************************************************)
MaxGvsRows == 2
Accounts == {<<"1">>, <<"1", "2">>}
GvsRows == [account : Accounts, consumption_ipu : {0, 3},
            consumption_average : {0, 2}]
GvsFiles == UNION {[1..n -> GvsRows] : n \in 0..MaxGvsRows}

(***************************************************************************)
(* lib/reaccural.py: Reaccural.__init__, one action per call it makes      *)
(***************************************************************************)
\* lines 136-141: the fields set before the first decomposition
Construct ==
    /\ pc = "new"
    /\ \E s \in ReaccuralSums :
        /\ reaccural_sum' = s
        /\ totalsum' = Quantize(s)
    /\ date' = ReaccuralDate
    /\ valid' = FALSE
    /\ records' = <<>>
    /\ pc' = "zero"
    /\ UNCHANGED <<details, gvs, account, type>>
    /\ UNCHANGED <<heatingVars, walkVars, laterVars>>

\* line 142
DecomposeToZero ==
    /\ pc = "zero"
    /\ LET res == try_decompose_to_zero(details, date, totalsum, <<>>, 0,
                                        valid, records)
       IN  /\ valid' = res.valid
           /\ records' = res.records
    /\ pc' = "after_zero"
    /\ UNCHANGED <<details, gvs, account, date, reaccural_sum, totalsum, type>>
    /\ UNCHANGED <<heatingVars, walkVars, laterVars>>

\* lines 143-145
SignAfterZero ==
    /\ pc = "after_zero"
    /\ valid
    /\ records' = change_records_sign(totalsum, records)
    /\ pc' = "done"
    /\ UNCHANGED <<details, gvs, account, date, reaccural_sum, totalsum,
                   valid, type>>
    /\ UNCHANGED <<heatingVars, walkVars, laterVars>>

\* lines 146-157: the account is closed when the next month has no row
\* (NoServiceRow) or a zero accural
AccountClosedAlways(det, d) == TRUE
AccountClosed(det, d) ==
    \/ ~HasRow(det, next(d))
    \/ get_service_month_accural(det, next(d)) = 0

DecomposeToPrevious ==
    /\ pc = "after_zero"
    /\ ~valid
    /\ LET res == IF AccountClosed(details, date)
                  THEN try_decompose_to_previous_accurance(
                           details, date, totalsum, <<>>, 0, valid, records)
                  ELSE Unchanged(valid, records)
       IN  /\ valid' = res.valid
           /\ records' = res.records
    /\ pc' = "after_previous"
    /\ UNCHANGED <<details, gvs, account, date, reaccural_sum, totalsum, type>>
    /\ UNCHANGED <<heatingVars, walkVars, laterVars>>

\* lines 158-161
FallbackRecord(d, raw, total) == ReaccuralMonthRec(d, raw)

Finish ==
    /\ pc = "after_previous"
    /\ records' =
        IF ~valid
        THEN Append(records, FallbackRecord(date, reaccural_sum, totalsum))
        ELSE change_records_sign(totalsum, records)
    /\ pc' = "done"
    /\ UNCHANGED <<details, gvs, account, date, reaccural_sum, totalsum,
                   valid, type>>
    /\ UNCHANGED <<heatingVars, walkVars, laterVars>>

\* lines 100-122
InitType ==
    /\ pc = "done"
    /\ type' = init_type(gvs, account)
    /\ pc' = "typed"
    /\ UNCHANGED <<details, gvs, account, date, reaccural_sum, totalsum,
                   valid, records>>
    /\ UNCHANGED <<heatingVars, walkVars, laterVars>>

NextReaccural ==
    \/ Construct
    \/ DecomposeToZero
    \/ SignAfterZero
    \/ DecomposeToPrevious
    \/ Finish
    \/ InitType

NoDate == MonthYear(0, 0)

\* no correction branch is running
CorrectionIdle ==
    /\ correction_month = 0
    /\ heating_corrections = <<>>
    /\ bpc = "idle"

\* the value of a field or a cell that holds None, and one that holds v
NoValue == <<>>
Value(v) == <<v>>

NoAccural == [heating |-> 0, gvs |-> 0, reaccural |-> 0, payment |-> 0]

\* no GVS row is being built
GvsIdle ==
    /\ osv_accural = NoAccural
    /\ GvsIpuInstallDates = <<>>
    /\ seen_opening_balance = <<>>
    /\ gpc = "idle"

\* no result table is open
FilledIdle ==
    /\ table_records = <<>>
    /\ active_sheet = <<>>
    /\ runs = 0
    /\ fpc = "idle"

\* no OSV file is being read
MonthIdle ==
    /\ instances = <<>>
    /\ opc = "idle"
    /\ osv_rows = 0

\* no buildings file is open
TariffIdle ==
    /\ conf = <<>>
    /\ workbook = <<>>
    /\ buildings = <<>>
    /\ query = <<>>
    /\ returned = <<>>
    /\ result_row = <<>>
    /\ tpc = "idle"

\* no query of an account's details is made
LookupIdle ==
    /\ history = <<>>
    /\ lookup = <<>>
    /\ answer = <<>>
    /\ lpc = "idle"

\* no object of a singleton class is asked for
SingletonIdle ==
    /\ singletons = <<>>
    /\ calls = <<>>

\* the program is not run
RunIdle ==
    /\ section = 0
    /\ region = <<>>
    /\ file_num = 0
    /\ line_num = 0
    /\ osv = <<>>
    /\ results = <<>>
    /\ passes = <<>>
    /\ saved = <<>>
    /\ log = <<>>
    /\ exception = ""
    /\ rpc = "idle"

\* no month is derived
DateIdle ==
    /\ reached = <<>>
    /\ taken = <<>>

ExtraIdle == LookupIdle /\ SingletonIdle /\ RunIdle /\ DateIdle
IdleExceptLookup == SingletonIdle /\ RunIdle /\ DateIdle
IdleExceptSingleton == LookupIdle /\ RunIdle /\ DateIdle
IdleExceptRun == LookupIdle /\ SingletonIdle /\ DateIdle
IdleExceptDate == LookupIdle /\ SingletonIdle /\ RunIdle

RestIdle == MonthIdle /\ TariffIdle /\ ExtraIdle

LaterIdle == CorrectionIdle /\ GvsIdle /\ FilledIdle /\ RestIdle

NoHeatingRow == [unrounded |-> 0, rounded |-> 0, error_before |-> 0,
                 penny |-> 0, accural_sum |-> 0, error_after |-> 0]

WalkIdle ==
    /\ osv_date = NoDate
    /\ year_correction = 0
    /\ wpc = "idle"
    /\ correction_type = {}
    /\ account_closing_month = 0
    /\ month_num = 0
    /\ total_closing_balance = 0
    /\ total_future_installment = 0
    /\ rows = <<>>

\* lib/resultfile.py line 437, rounding_error: list = [0.0]
HeatingIdle ==
    /\ rounding_error = 0
    /\ hpc = "idle"
    /\ hrow = NoHeatingRow
    /\ account_rows = <<>>
    /\ error_start = 0

ObjectNew ==
    /\ pc = "new"
    /\ date = NoDate
    /\ reaccural_sum = 0
    /\ totalsum = 0
    /\ valid = FALSE
    /\ records = <<>>
    /\ type = None

\* every account history of the input sets, no GVS row
InitReaccural ==
    /\ details \in DetailTables
    /\ gvs = <<>>
    /\ account = <<"1", "2">>
    /\ ObjectNew
    /\ HeatingIdle
    /\ WalkIdle
    /\ LaterIdle

SpecReaccural == InitReaccural /\ [][NextReaccural]_vars

\* every GVS file of the input sets, one account history
TypeDetails == [m \in {previous(ReaccuralDate)} |-> DetailsRow(10, 0)]

InitReaccuralType ==
    /\ details = TypeDetails
    /\ gvs \in GvsFiles
    /\ account \in Accounts
    /\ ObjectNew
    /\ HeatingIdle
    /\ WalkIdle
    /\ LaterIdle

SpecReaccuralType == InitReaccuralType /\ [][NextReaccural]_vars

(***************************************************************************)
(* Vocabulary of the reaccural claims, stated on the account details       *)
(* table itself: the k-th month before the reaccural month, the accurals   *)
(* met on the way back and the running sum after k months.                 *)
(***************************************************************************)
MonthLt(a, b) == a.year < b.year \/ (a.year = b.year /\ a.month < b.month)

BackMonths == [k \in 0..(MAX_DEPTH + 2) |-> Back(ReaccuralDate, k)]
MonthBack(k) == BackMonths[k]
RowAt(k) == MonthBack(k) \in DOMAIN details
AccuralAt(k) == IF RowAt(k) THEN details[MonthBack(k)].accural ELSE 0

RECURSIVE RunningSum(_)
RunningSum(k) == IF k = 0 THEN totalsum ELSE RunningSum(k - 1) + AccuralAt(k)

RECURSIVE SumOfRecords(_)
SumOfRecords(recs) ==
    IF recs = <<>> THEN 0 ELSE Head(recs).sum + SumOfRecords(Tail(recs))

Least(S) == CHOOSE k \in S : \A j \in S : k <= j

OldestFirst(recs) ==
    \A i \in 1..(Len(recs) - 1) : MonthLt(recs[i].date, recs[i + 1].date)

\* months, counted back from the reaccural month, where Algorithm A stops
ZeroMonths == {k \in 1..MAX_DEPTH : RowAt(k) /\ RunningSum(k) = 0}

\* the records of the months 1..k back that have a row, each with the
\* accural of its month
HoldsVisitedMonths(recs, k) ==
    /\ \A j \in 1..k : RowAt(j) =>
          \E i \in 1..Len(recs) :
              recs[i] = ReaccuralMonthRec(MonthBack(j), AccuralAt(j))
    /\ \A i \in 1..Len(recs) :
          \E j \in 1..k : RowAt(j) /\ recs[i].date = MonthBack(j)

\* C1: try_decompose_to_zero makes at most MAX_DEPTH steps back, a month
\* without a row taking one of them; it succeeds at the first month with a
\* row where the running sum is 0, and then valid is true and the records
\* are those of the visited months that have a row, oldest first, each with
\* the accural of its month; otherwise it leaves the object as it was.
C1_DecomposeToZero ==
    pc = "after_zero" =>
        IF ZeroMonths # {}
        THEN /\ valid
             /\ HoldsVisitedMonths(records, Least(ZeroMonths))
             /\ OldestFirst(records)
        ELSE ~valid /\ records = <<>>

C1_Witness ==
    /\ pc = "after_zero"
    /\ valid
    /\ Len(records) >= 2
    /\ records[1].date = MonthBack(MAX_DEPTH)
    /\ ~RowAt(2)

\* C2 as claimed: after a decomposition by Algorithm A the amounts of the
\* records and the reaccural total add up to 0, whatever the sign of the
\* total.
C2_Original ==
    (pc = "done" /\ ZeroMonths # {}) => SumOfRecords(records) + totalsum = 0

\* C2 as amended: after a decomposition by Algorithm A the amounts of the
\* records and the magnitude of the reaccural total add up to 0: the
\* amounts cancel a total that is zero or positive and add up to a total
\* that is negative.
C2_SumCancelsMagnitude ==
    (pc = "done" /\ ZeroMonths # {}) =>
        SumOfRecords(records) + Abs(totalsum) = 0

C2_Witness ==
    /\ pc = "done"
    /\ ZeroMonths # {}
    /\ totalsum < 0
    /\ Len(records) >= 2
    /\ SumOfRecords(records) = totalsum

\* C3: the step that ends __init__ negates every amount of a successful
\* decomposition (Algorithm A or B, the remainder record of B included)
\* when the total is negative, keeps every amount when the total is zero or
\* positive, and after a failed decomposition only adds the record of the
\* unmodified total.
C3_SignFlip ==
    [][(pc \in {"after_zero", "after_previous"} /\ pc' = "done") =>
          /\ (valid /\ totalsum < 0) =>
                /\ Len(records') = Len(records)
                /\ \A i \in 1..Len(records) :
                      /\ records'[i].date = records[i].date
                      /\ records'[i].sum = -records[i].sum
          /\ (valid /\ totalsum >= 0) => records' = records
          /\ ~valid =>
                records' = Append(records,
                                  ReaccuralMonthRec(date, reaccural_sum))]_vars

\* a negative total decomposed by Algorithm B: the remainder record, the
\* oldest, is negated as well
C3_Witness ==
    /\ pc = "done"
    /\ valid
    /\ totalsum < 0
    /\ ZeroMonths = {}
    /\ Len(records) >= 2
    /\ records[1].sum < 0

NextMonthOpen ==
    /\ next(ReaccuralDate) \in DOMAIN details
    /\ details[next(ReaccuralDate)].accural # 0

\* C4: when no decomposition is found the object holds one record, dated
\* at the reaccural month with the unmodified total, and valid is false;
\* Algorithm B is tried only when A failed and the next month has no row
\* or a zero accural.
C4_Fallback ==
    pc = "done" =>
        /\ ~valid => records = <<ReaccuralMonthRec(ReaccuralDate, reaccural_sum)>>
        /\ (ZeroMonths = {} /\ NextMonthOpen) => ~valid
        /\ ~valid <=>
              /\ ZeroMonths = {}
              /\ \/ NextMonthOpen
                 \/ ~try_decompose_to_previous_accurance(
                        details, ReaccuralDate, totalsum, <<>>, 0,
                        FALSE, <<>>).valid

\* Algorithm B would decompose the total, yet it is not tried
C4_Witness ==
    /\ pc = "done"
    /\ ~valid
    /\ NextMonthOpen
    /\ try_decompose_to_previous_accurance(
           details, ReaccuralDate, totalsum, <<>>, 0, FALSE, <<>>).valid
    /\ records = <<ReaccuralMonthRec(ReaccuralDate, reaccural_sum)>>

\* months, counted back, where Algorithm B stops according to C5: the
\* running sum over every visited month with a row is, in magnitude, below
\* the accural of the month before
PreviousMonths ==
    {k \in 1..MAX_DEPTH :
        RowAt(k) /\ RowAt(k + 1) /\ Abs(RunningSum(k)) < AccuralAt(k + 1)}

\* C5 as claimed: try_decompose_to_previous_accurance adds the accural of
\* every visited month that has a row to the running sum and gives it a
\* record; it succeeds at the first visited month d where the magnitude of
\* the running sum is below the accural of the month before d, with the
\* records of the visited months and a last record, dated the month before
\* d, holding that magnitude, oldest first.
C5_Original ==
    (pc = "after_previous" /\ ZeroMonths = {} /\ ~NextMonthOpen) =>
        IF PreviousMonths # {}
        THEN LET k == Least(PreviousMonths) IN
             /\ valid
             /\ Len(records) >= 1
             /\ records[1] =
                    ReaccuralMonthRec(MonthBack(k + 1), Abs(RunningSum(k)))
             /\ HoldsVisitedMonths(Tail(records), k)
             /\ OldestFirst(records)
        ELSE ~valid /\ records = <<>>

\* C6 as claimed: the reaccural is classified by the first GVS row of its
\* own account in the file of the previous month: AVERAGE with an average
\* consumption, else IPU with a metered consumption, else NORMATIVE, and
\* NORMATIVE when the account has no row.
OwnRows == as_filtered_list(gvs, <<"account">>, TupleOf(account))

C6_Original ==
    pc = "typed" =>
        type = IF Len(OwnRows) = 0 THEN NORMATIVE ELSE RowType(OwnRows[1])

(***************************************************************************)
(* lib/resultfile.py: HeatingCorrectionResultRow                           *)
(* A volume is counted in tenths of a unit and a tariff in cents a unit,   *)
(* so that volume * price is an amount in mills.  The arithmetic of the    *)
(* floats is taken as exact; of their binary representation the model      *)
(* keeps what decides a half cent:                                         *)
(*   - the double that stands for an amount x.xx5 lies just below or just  *)
(*     above it, so round(x, 2) goes to either neighbouring cent           *)
(*     (round(0.015, 2) is 0.01, round(0.025, 2) is 0.03): `up` says       *)
(*     which, and is an input of the row;                                  *)
(*   - HALF_PENNY, the double of 0.005, lies above 0.005, so an error      *)
(*     that passes abs(error) >= HALF_PENNY rounds away from zero.         *)
(***************************************************************************)
HALF_PENNY == 5

\* round(x, 2): the nearest cent, a half cent going up or down with `up`
Round2(x, up) ==
    LET lo == FloorDiv10(x) * 10
        r  == x - lo
    IN  IF r < 5 THEN lo
        ELSE IF r > 5 THEN lo + 10
        ELSE IF up THEN lo + 10 ELSE lo

\* line 468, SIGNED_PENNY = round(self.rounding_error[0], 2), evaluated
\* only once abs(rounding_error) >= HALF_PENNY
SignedPennyHalfEven(err1) == Quantize(err1)
SignedPenny(err1) == Round2(err1, err1 > 0)

\* line 470, self.rounding_error[0] -= SIGNED_PENNY
ErrorReducedToZero(err1, penny) == 0
ErrorReduced(err1, penny) == err1 - penny

\* the row built on an accumulator of its own
CorrectionAccuralFromZero(correction_volume, price, correction_sum, up, err0) ==
    LET accural_sum == correction_volume * price - correction_sum
        accural_sum_rounded == Round2(accural_sum, up)
        err1 == accural_sum - accural_sum_rounded
        fold == Abs(err1) >= HALF_PENNY
        penny == IF fold THEN SignedPenny(err1) ELSE 0
    IN  [unrounded    |-> accural_sum,
         rounded      |-> accural_sum_rounded,
         error_before |-> 0,
         penny        |-> penny,
         accural_sum  |-> accural_sum_rounded + penny,
         error_after  |-> IF fold THEN ErrorReduced(err1, penny) ELSE err1]

\* lines 461-471: the row's accural and the accumulator it leaves
CorrectionAccural(correction_volume, price, correction_sum, up, err0) ==
    LET accural_sum == correction_volume * price - correction_sum
        accural_sum_rounded == Round2(accural_sum, up)
        err1 == err0 + (accural_sum - accural_sum_rounded)
        fold == Abs(err1) >= HALF_PENNY
        penny == IF fold THEN SignedPenny(err1) ELSE 0
    IN  [unrounded    |-> accural_sum,
         rounded      |-> accural_sum_rounded,
         error_before |-> err0,
         penny        |-> penny,
         accural_sum  |-> accural_sum_rounded + penny,
         error_after  |-> IF fold THEN ErrorReduced(err1, penny) ELSE err1]

MaxAccountRows == 2                   \* correction rows of one account
Volumes == {0, 1, 4, 5}               \* tenths of a unit
Tariffs == {1, 2}                     \* cents a unit
CorrectionSums == {0, 10}             \* ledger amounts, whole cents

\* HeatingCorrectionResultRow.__init__, the fields 24, 25, 36, 37
HeatingCorrectionResultRow ==
    /\ Len(account_rows) < MaxAccountRows
    /\ \E correction_volume \in Volumes, price \in Tariffs,
          correction_sum \in CorrectionSums, up \in BOOLEAN :
          LET row == CorrectionAccural(correction_volume, price,
                                       correction_sum, up, rounding_error)
          IN  /\ hrow' = row
              /\ rounding_error' = row.error_after
              /\ account_rows' = Append(account_rows,
                    [unrounded |-> row.unrounded,
                     accural_sum |-> row.accural_sum])
    /\ hpc' = "row"
    /\ UNCHANGED error_start
    /\ UNCHANGED <<reaccuralVars, walkVars, laterVars>>

\* main.py, _process_heating_correction entered for the next account: its
\* rows start with the accumulator the rows before left
NextAccountCorrection ==
    /\ account_rows # <<>>
    /\ account_rows' = <<>>
    /\ error_start' = rounding_error
    /\ hpc' = "idle"
    /\ UNCHANGED <<rounding_error, hrow>>
    /\ UNCHANGED <<reaccuralVars, walkVars, laterVars>>

NextHeating ==
    \/ HeatingCorrectionResultRow
    \/ NextAccountCorrection

ReaccuralIdle ==
    /\ details = <<>>
    /\ gvs = <<>>
    /\ account = <<"1", "2">>
    /\ ObjectNew

InitHeating == HeatingIdle /\ ReaccuralIdle /\ WalkIdle /\ LaterIdle

SpecHeating == InitHeating /\ [][NextHeating]_vars

(***************************************************************************)
(* The rounding of the heating correction rows                             *)
(***************************************************************************)
\* the accumulator once the row's rounding loss is added, before any fold
ErrorWithLoss == hrow.error_before + (hrow.unrounded - hrow.rounded)

\* the row adds its rounding loss to the accumulator, and when the
\* magnitude then reaches half a cent exactly one signed cent goes to the
\* row's accural and comes off the accumulator
FoldsOneCent ==
    /\ hrow.rounded % 10 = 0
    /\ Abs(hrow.unrounded - hrow.rounded) <= HALF_PENNY
    /\ IF Abs(ErrorWithLoss) >= HALF_PENNY
       THEN /\ hrow.penny = (IF ErrorWithLoss > 0 THEN 10 ELSE -10)
            /\ hrow.accural_sum = hrow.rounded + hrow.penny
            /\ rounding_error = ErrorWithLoss - hrow.penny
       ELSE /\ hrow.penny = 0
            /\ hrow.accural_sum = hrow.rounded
            /\ rounding_error = ErrorWithLoss

\* C7 as claimed: every row folds one signed cent when the accumulator
\* with the row's rounding loss reaches half a cent, so that after every
\* row the magnitude of the accumulator is below half a cent.
C7_Original ==
    hpc = "row" => FoldsOneCent /\ Abs(rounding_error) < HALF_PENNY

\* C7 as amended: every row folds one signed cent when the accumulator
\* with the row's rounding loss reaches half a cent, so that after every
\* row the magnitude of the accumulator is at most half a cent.
C7_AtMostHalfCent ==
    hpc = "row" => FoldsOneCent /\ Abs(rounding_error) <= HALF_PENNY

\* a cent is folded and leaves the accumulator at half a cent
C7_Witness ==
    /\ hpc = "row"
    /\ hrow.penny = -10
    /\ hrow.accural_sum = hrow.rounded - 10
    /\ rounding_error = HALF_PENNY

RECURSIVE SumField(_, _)
SumField(rs, f) ==
    IF rs = <<>> THEN 0 ELSE Head(rs)[f] + SumField(Tail(rs), f)

EmittedTotal == SumField(account_rows, "accural_sum")
UnroundedTotal == SumField(account_rows, "unrounded")

Conserved == EmittedTotal + rounding_error = UnroundedTotal + error_start

\* C8 as claimed: over the rows of a sequence the emitted accurals and the
\* accumulator add up to the unrounded accurals and the accumulator before
\* the sequence, hence the emitted total is within half a cent a row of
\* the unrounded total.
C8_Original ==
    /\ Conserved
    /\ Abs(EmittedTotal - UnroundedTotal) <= HALF_PENNY * Len(account_rows)

\* C8 as amended: over the rows of a sequence the emitted accurals and the
\* accumulator add up to the unrounded accurals and the accumulator before
\* the sequence, hence the emitted total is within half a cent plus the
\* magnitude of the accumulator before the sequence, one cent at most, of
\* the unrounded total.
C8_Conservation ==
    /\ Conserved
    /\ Abs(EmittedTotal - UnroundedTotal) <= HALF_PENNY + Abs(error_start)
    /\ Abs(EmittedTotal - UnroundedTotal) <= 2 * HALF_PENNY

C8_Witness ==
    /\ Len(account_rows) = 2
    /\ error_start # 0
    /\ hrow.penny # 0
    /\ Abs(EmittedTotal - UnroundedTotal) = 2 * HALF_PENNY

(***************************************************************************)
(* lib/detailsfile.py: get_service_year_accurals, get_service_closing_month*)
(***************************************************************************)
\* the accural of a month of the year, 0.00 for a month without a row
YearAccural(det, year, month) ==
    IF HasRow(det, MonthYear(month, year))
    THEN get_service_month_accural(det, MonthYear(month, year))
    ELSE 0

get_service_closing_month(det, year) ==
    IF YearAccural(det, year, 12) # 0 THEN -1
    ELSE LET used == {m \in 1..11 : YearAccural(det, year, m) # 0}
         IN  IF used = {} THEN 0
             ELSE CHOOSE m \in used : \A n \in used : n <= m

(***************************************************************************)
(* lib/heatingcorrections.py: HeatingPositiveCorrection.__init__           *)
(* The Flag OPEN is the empty set of flags.                                *)
(***************************************************************************)
CLOSED_LAST_YEAR == "CLOSED_LAST_YEAR"
CLOSED_CURRENT_YEAR == "CLOSED_CURRENT_YEAR"

HeatingPositiveCorrectionTypeBefore(det, curent_date) ==
    LET current_year_close_month ==
            get_service_closing_month(det, curent_date.year)
    IN  IF current_year_close_month = -1 THEN {}
        ELSE IF current_year_close_month = 0
        THEN {CLOSED_CURRENT_YEAR, CLOSED_LAST_YEAR}
        ELSE IF current_year_close_month < curent_date.month
        THEN {CLOSED_CURRENT_YEAR, CLOSED_LAST_YEAR}
        ELSE {CLOSED_CURRENT_YEAR}
HeatingPositiveCorrectionType(det, curent_date) ==
    LET current_year_close_month ==
            get_service_closing_month(det, curent_date.year)
    IN  IF current_year_close_month = -1 THEN {}
        ELSE IF current_year_close_month = 0
        THEN {CLOSED_CURRENT_YEAR, CLOSED_LAST_YEAR}
        ELSE IF current_year_close_month <= curent_date.month
        THEN {CLOSED_CURRENT_YEAR, CLOSED_LAST_YEAR}
        ELSE {CLOSED_CURRENT_YEAR}

(***************************************************************************)
(* Input sets of the installment walk.  The months of the current year     *)
(* before the last WalkLen either all hold a row with an accural or none   *)
(* holds a row; each of the last WalkLen months holds any row or none.     *)
(***************************************************************************)
WalkLen == 3
CurrentYear == ReaccuralDate.year   \* the year of the OSV files processed
FreeMonths == (13 - WalkLen)..12
EarlyMonths == 1..(12 - WalkLen)
WalkAccurals == {0, 500}
WalkReaccurals == {0, 100, 200}
YearCorrections == {0, 100, 300}
WalkRows == {DetailsRow(a, r) : a \in WalkAccurals, r \in WalkReaccurals}

YearMonths(ms) == {MonthYear(m, CurrentYear) : m \in ms}

EarlyTable(early) == [d \in YearMonths(early) |-> DetailsRow(500, 0)]

WalkTables ==
    UNION {{t @@ EarlyTable(early) : t \in [YearMonths(ms) -> WalkRows]} :
           ms \in SUBSET FreeMonths, early \in {{}, EarlyMonths}}

(***************************************************************************)
(* lib/resultfile.py: the rows of a positive correction, by the fields     *)
(* the walk fills: 6 (month of correction_date), 39, 45 and 46; the        *)
(* excessive reaccural row: its date, 6 and 24.                            *)
(***************************************************************************)
HeatingPositiveCorrectionResultRow(correction_date, future_installment, closing_balance, future_total) ==
    [kind |-> "HEATING_POSITIVE_CORRECTION",
     correction_date |-> correction_date,
     future_installment |-> future_installment,
     total_closing_balance |-> closing_balance,
     total_future_installment |-> future_total]

HeatingPositiveCorrectionExcessiveReaccuralResultRow(row_date, correction_date, accural_sum) ==
    [kind |-> "HEATING_POSITIVE_CORRECTION_EXCESSIVE_REACCURAL",
     date |-> row_date,
     correction_date |-> correction_date,
     accural_sum |-> accural_sum]

\* field 39, future_installment: None for every row but the first of a
\* walk, else the Decimal of the first row
NoInstallment == <<>>
InstallmentAbsent(value) == <<>>
Installment(value) == <<value>>

(***************************************************************************)
(* main.py: RegionDir._add_future_installment_records                      *)
(***************************************************************************)
\* lines 559-568 and, for an account closed last year, 646-663
StartInstallment ==
    /\ wpc = "start"
    /\ LET ctype == HeatingPositiveCorrectionType(details, osv_date)
       IN  /\ correction_type' = ctype
           /\ IF CLOSED_LAST_YEAR \notin ctype
              THEN /\ account_closing_month' =
                          get_service_closing_month(details, osv_date.year)
                   /\ month_num' = osv_date.month
                   /\ wpc' = "walk"
                   /\ UNCHANGED rows
              ELSE /\ rows' = Append(rows,
                          HeatingPositiveCorrectionResultRow(
                              osv_date, NoInstallment,
                              Quantize(year_correction), 0))
                   /\ wpc' = "done"
                   /\ UNCHANGED <<account_closing_month, month_num>>
    /\ UNCHANGED <<osv_date, year_correction, total_closing_balance,
                   total_future_installment>>
    /\ UNCHANGED <<reaccuralVars, heatingVars, laterVars>>

\* line 583 and line 589
FutureInstallmentGrows(installment, reaccural) == installment + reaccural
FutureInstallmentLeft(installment, reaccural) == installment - reaccural

\* lines 631-633
ExcessiveReaccuralAfterReset(next_month_reaccural, last_installment) ==
    next_month_reaccural
ExcessiveReaccural(next_month_reaccural, last_installment) ==
    next_month_reaccural - last_installment

\* lines 601-645: the rows added once the closing month is reached
ClosingRows(det, month, last_total_future_installment) ==
    LET closing ==
            HeatingPositiveCorrectionResultRow(
                MonthYear(month + 1, CurrentYear), NoInstallment,
                Quantize(year_correction), 0)
        next_date == MonthYear(month + 1, osv_date.year)
    IN  IF ~HasRow(det, next_date) THEN <<closing>>
        ELSE LET excessive_reaccural ==
                     ExcessiveReaccural(
                         Quantize(get_service_month_reaccural(det, next_date)),
                         last_total_future_installment)
                 correction_date == MonthYear(month, CurrentYear)
             IN  IF excessive_reaccural # 0
                 THEN <<closing,
                        HeatingPositiveCorrectionExcessiveReaccuralResultRow(
                            next(correction_date), correction_date,
                            excessive_reaccural)>>
                 ELSE <<closing>>

\* lines 571-645: one pass of the loop over the months
WalkMonth ==
    /\ wpc = "walk"
    /\ HasRow(details, MonthYear(month_num, osv_date.year))
    /\ LET correction_date == MonthYear(month_num, CurrentYear)
           reaccural ==
               Quantize(get_service_month_reaccural(
                            details, MonthYear(month_num, osv_date.year)))
           first == month_num = osv_date.month
           future_installment ==
               IF first
               THEN Installment(
                        FutureInstallmentLeft(year_correction, reaccural))
               ELSE NoInstallment
           closing_balance ==
               IF first THEN reaccural ELSE total_closing_balance + reaccural
           future_total ==
               IF first
               THEN FutureInstallmentLeft(year_correction, reaccural)
               ELSE FutureInstallmentLeft(total_future_installment, reaccural)
           row == HeatingPositiveCorrectionResultRow(
                      correction_date, future_installment, closing_balance,
                      future_total)
       IN  IF month_num = account_closing_month
           THEN /\ rows' = Append(rows, row)
                            \o ClosingRows(details, month_num, future_total)
                /\ total_future_installment' = 0
                /\ total_closing_balance' = Quantize(year_correction)
                /\ wpc' = "done"
                /\ UNCHANGED month_num
           ELSE /\ rows' = Append(rows, row)
                /\ total_future_installment' = future_total
                /\ total_closing_balance' = closing_balance
                /\ IF month_num < 12
                   THEN month_num' = month_num + 1 /\ wpc' = "walk"
                   ELSE UNCHANGED month_num /\ wpc' = "done"
    /\ UNCHANGED <<osv_date, year_correction, correction_type,
                   account_closing_month>>
    /\ UNCHANGED <<reaccuralVars, heatingVars, laterVars>>

\* lines 573-578: the month has no row, get_service_month_reaccural raises
\* NoServiceRow and nothing in the walk catches it
WalkRaises ==
    /\ wpc = "walk"
    /\ ~HasRow(details, MonthYear(month_num, osv_date.year))
    /\ wpc' = "raised"
    /\ UNCHANGED <<osv_date, year_correction, correction_type,
                   account_closing_month, month_num, total_closing_balance,
                   total_future_installment, rows>>
    /\ UNCHANGED <<reaccuralVars, heatingVars, laterVars>>

NextInstallment ==
    \/ StartInstallment
    \/ WalkMonth
    \/ WalkRaises

\* _process_heating_correction calls the walk in the correction month of
\* an account whose month has a row with a reaccural other than zero
\* (main.py lines 487-494) and whose year correction is not negative
\* (line 506)
InitInstallment ==
    /\ details \in WalkTables
    /\ osv_date \in YearMonths(FreeMonths)
    /\ HasRow(details, osv_date)
    /\ get_service_month_reaccural(details, osv_date) # 0
    /\ year_correction \in YearCorrections
    /\ wpc = "start"
    /\ correction_type = {}
    /\ account_closing_month = 0
    /\ month_num = 0
    /\ total_closing_balance = 0
    /\ total_future_installment = 0
    /\ rows = <<>>
    /\ gvs = <<>>
    /\ account = <<"1", "2">>
    /\ ObjectNew
    /\ HeatingIdle
    /\ LaterIdle

SpecInstallment == InitInstallment /\ [][NextInstallment]_vars

(***************************************************************************)
(* The installment walk of a positive correction                           *)
(***************************************************************************)
\* the reaccurals of the months from..to of the current year
RECURSIVE ReaccuralsFrom(_, _)
ReaccuralsFrom(from, to) ==
    IF from > to THEN 0
    ELSE details[MonthYear(from, CurrentYear)].reaccural
             + ReaccuralsFrom(from + 1, to)

LastRow == rows[Len(rows)]

\* the walk of an account open all year has run to December
OpenWalkDone ==
    /\ wpc = "done"
    /\ account_closing_month = -1
    /\ CLOSED_LAST_YEAR \notin correction_type
    /\ rows # <<>>

\* C9 as claimed: the December row of an account open all year carries a
\* total future installment of zero.
C9_Original ==
    OpenWalkDone => LastRow.total_future_installment = 0

\* C9 as amended: the December row of an account open all year carries, as
\* total future installment, the year correction less the reaccurals of
\* the months from the trigger month to December: zero exactly when those
\* reaccurals add up to the year correction.
C9_InstallmentLeft ==
    OpenWalkDone =>
        /\ LastRow.correction_date = MonthYear(12, CurrentYear)
        /\ Len(rows) = 12 - osv_date.month + 1
        /\ LastRow.total_future_installment =
               year_correction - ReaccuralsFrom(osv_date.month, 12)

C9_Witness ==
    /\ OpenWalkDone
    /\ Len(rows) >= 2
    /\ year_correction > 0
    /\ LastRow.total_future_installment = 0
    /\ LastRow.total_closing_balance = year_correction

\* the walk has reached the closing month of the account
ClosingReached ==
    /\ wpc = "done"
    /\ CLOSED_LAST_YEAR \notin correction_type
    /\ account_closing_month \in 1..11

\* C10: at the closing month c the walk adds the row of c, then a closing
\* row dated c + 1, a month of the year, with no total future installment
\* and the full year correction as closing balance, then, when month c + 1
\* has a reaccural that differs from the total future installment held
\* before, one excessive reaccural row for the difference, and no row
\* after that.
C10_ClosingRows ==
    ClosingReached =>
        LET c == account_closing_month
            n == c - osv_date.month + 1
            after == MonthYear(c + 1, CurrentYear)
            excess == details[after].reaccural
                          - rows[n].total_future_installment
        IN  /\ n >= 1
            /\ Len(rows) >= n + 1
            /\ \A i \in 1..n :
                  /\ rows[i].kind = "HEATING_POSITIVE_CORRECTION"
                  /\ rows[i].correction_date =
                         MonthYear(osv_date.month + i - 1, CurrentYear)
            /\ rows[n + 1] =
                   HeatingPositiveCorrectionResultRow(
                       after, NoInstallment, year_correction, 0)
            /\ after.month \in 1..12
            /\ IF after \in DOMAIN details /\ excess # 0
               THEN /\ Len(rows) = n + 2
                    /\ rows[n + 2] =
                         HeatingPositiveCorrectionExcessiveReaccuralResultRow(
                             after, MonthYear(c, CurrentYear), excess)
               ELSE Len(rows) = n + 1

C10_Witness ==
    /\ ClosingReached
    /\ Len(rows) = account_closing_month - osv_date.month + 3
    /\ Len(rows) >= 4
    /\ rows[Len(rows) - 2].total_future_installment # 0
    /\ LastRow.kind = "HEATING_POSITIVE_CORRECTION_EXCESSIVE_REACCURAL"

(***************************************************************************)
(* The collapsed row of an account closed before the correction            *)
(***************************************************************************)
\* the months of the current year that hold a row with an accural
AccuralMonths ==
    {m \in 1..12 : /\ MonthYear(m, CurrentYear) \in DOMAIN details
                   /\ details[MonthYear(m, CurrentYear)].accural # 0}

\* the account is closed in the current year (no accural in December) and
\* its last month with an accural, if any, is not after the trigger month
ClosedByTrigger ==
    /\ 12 \notin AccuralMonths
    /\ \A m \in AccuralMonths : m <= osv_date.month

CollapsedRow ==
    HeatingPositiveCorrectionResultRow(
        osv_date, NoInstallment, year_correction, 0)

\* C11: an account with no accural in the current year, or closed in a
\* month not later than the trigger month, gets the collapsed row alone
\* (dated the trigger month, the year correction as closing balance, a
\* zero total future installment, no future installment); every other
\* account is walked month by month from the trigger month, its first row
\* carries a future installment, and no row of it is the collapsed row.
C11_CollapsedRow ==
    IF ClosedByTrigger
    THEN /\ wpc \in {"start", "done"}
         /\ wpc = "done" => rows = <<CollapsedRow>>
    ELSE /\ \A i \in 1..Len(rows) : rows[i] # CollapsedRow
         /\ wpc # "start" => CLOSED_LAST_YEAR \notin correction_type
         /\ wpc = "done" =>
               /\ rows # <<>>
               /\ rows[1].correction_date = osv_date
               /\ rows[1].future_installment =
                      Installment(
                          year_correction - details[osv_date].reaccural)

C11_Witness ==
    /\ wpc = "done"
    /\ ClosedByTrigger
    /\ osv_date.month \in AccuralMonths
    /\ year_correction > 0
    /\ rows = <<CollapsedRow>>

(***************************************************************************)
(* lib/heatingcorrections.py: the last-year corrections file, one sheet a  *)
(* year, and its records.  Only the first MaxDataMonths months of a record *)
(* hold a correction sum or a volume, the other months hold 0.             *)
(***************************************************************************)
MaxDataMonths == 1
DataMonths == 1..MaxDataMonths
MonthSums == {-10, 0, 10}
MonthVolumes == {0, 5}
RawYearCorrections == {-100, -96, 0, 100}
OtherAccount == <<"1">>

\* __post_init__ quantizes year_correction
HeatingCorrectionRecord(acc, raw_year_correction, sums, vkv) ==
    [account |-> acc,
     year_correction |-> Quantize(raw_year_correction),
     sums |-> [m \in 1..12 |-> IF m \in DataMonths THEN sums[m] ELSE 0],
     vkv |-> [m \in 1..12 |-> IF m \in DataMonths THEN vkv[m] ELSE 0]]

CorrectionRecords(acc) ==
    {HeatingCorrectionRecord(acc, yc, sums, vkv) :
        yc \in RawYearCorrections,
        sums \in [DataMonths -> MonthSums],
        vkv \in [DataMonths -> MonthVolumes]}

\* no sheet for the last year, an empty sheet, a sheet with the record of
\* another account, a sheet with the record of the account
CorrectionFiles ==
    {<<>>}
    \cup {[y \in {CurrentYear - 1} |-> recs] :
            recs \in {<<>>, <<HeatingCorrectionRecord(
                                  OtherAccount, 100,
                                  [m \in DataMonths |-> 10],
                                  [m \in DataMonths |-> 5])>>}}
    \cup {[y \in {CurrentYear - 1} |-> <<rec>>] :
            rec \in CorrectionRecords(<<"1", "2">>)}

\* lib/helpers.py, BaseMultisheetWorkBookData.get_row_by_field_value: the
\* rows of the sheet that the loop can return
AccountRowsOf(file, acc, sheet_name) ==
    SelectSeq(file[sheet_name], LAMBDA record : record.account = acc)

(***************************************************************************)
(* main.py: RegionDir._process_heating_correction                          *)
(***************************************************************************)
HeatingReaccuralResultRow(row_date, accural_sum) ==
    [kind |-> "HEATING_REACCURAL",
     date |-> row_date,
     accural_sum |-> accural_sum]

HeatingCorrectionRowFields(correction_date, accural_sum) ==
    [kind |-> "HEATING_CORRECTION",
     correction_date |-> correction_date,
     accural_sum |-> accural_sum]

\* lines 507-519: a negative correction is left alone unless the reaccural
\* of the month is the year correction
CorrectionAbortedWhenPositive(is_positive_correction, reaccural, year_corr) ==
    is_positive_correction /\ reaccural # year_corr
CorrectionAborted(is_positive_correction, reaccural, year_corr) ==
    ~is_positive_correction /\ reaccural # year_corr

\* lines 520-553: the loop over the months of the last year, from month m
\* on; odpu is the number of ODPU records of the address, ups the tie
\* direction of each row's rounding
RECURSIVE CorrectionMonths(_, _, _, _, _, _, _)
CorrectionMonths(rec, m, price, odpu, ups, err, out) ==
    IF m > 12 THEN [rows |-> out, err |-> err, raised |-> FALSE]
    ELSE
    LET correction_sum == rec.sums[m]
        correction_volume == rec.vkv[m]
        correction_date == MonthYear(m, osv_date.year - 1)
        with_reaccural ==
            IF correction_sum < 0
            THEN Append(out, HeatingReaccuralResultRow(correction_date,
                                                       correction_sum))
            ELSE out
    IN  IF correction_sum = 0 /\ correction_volume = 0
        THEN CorrectionMonths(rec, m + 1, price, odpu, ups, err, out)
        ELSE IF odpu # 1
        THEN [rows |-> with_reaccural, err |-> err, raised |-> TRUE]
        ELSE LET row == CorrectionAccural(correction_volume, price,
                                          correction_sum, ups[m], err)
             IN  CorrectionMonths(rec, m + 1, price, odpu, ups,
                     row.error_after,
                     Append(with_reaccural,
                            HeatingCorrectionRowFields(correction_date,
                                                       row.accural_sum)))

\* the branch returns before it adds a row
CorrectionReturns ==
    /\ bpc' = "returned"
    /\ UNCHANGED <<rows, rounding_error, wpc, year_correction>>

ProcessHeatingCorrection ==
    /\ bpc = "start"
    /\ LET last_year == osv_date.year - 1
       IN  IF osv_date.month # correction_month THEN CorrectionReturns
           ELSE IF ~HasRow(details, osv_date) THEN CorrectionReturns
           ELSE IF get_service_month_reaccural(details, osv_date) = 0
           THEN CorrectionReturns
           ELSE IF last_year \notin DOMAIN heating_corrections
           THEN \* self.sheets[sheet_name] raises KeyError
                /\ bpc' = "raised"
                /\ UNCHANGED <<rows, rounding_error, wpc, year_correction>>
           ELSE IF AccountRowsOf(heating_corrections, account, last_year)
                       = <<>>
           THEN CorrectionReturns
           ELSE
           LET reaccural ==
                   Quantize(get_service_month_reaccural(details, osv_date))
               correction_record ==
                   Head(AccountRowsOf(heating_corrections, account,
                                      last_year))
               is_positive_correction ==
                   correction_record.year_correction >= 0
           IN  IF CorrectionAborted(is_positive_correction, reaccural,
                                    correction_record.year_correction)
               THEN CorrectionReturns
               ELSE \E price \in Tariffs, odpu \in 0..2,
                       ups \in [DataMonths -> BOOLEAN] :
                    LET loop == CorrectionMonths(correction_record, 1,
                                    price, odpu, ups, rounding_error, <<>>)
                    IN  /\ rows' = rows \o loop.rows
                        /\ rounding_error' = loop.err
                        /\ IF loop.raised
                           THEN /\ bpc' = "raised"
                                /\ UNCHANGED <<wpc, year_correction>>
                           ELSE /\ bpc' = "done"
                                /\ IF is_positive_correction
                                   THEN /\ wpc' = "start"
                                        /\ year_correction' =
                                             correction_record.year_correction
                                   ELSE UNCHANGED <<wpc, year_correction>>
    /\ UNCHANGED <<correction_month, heating_corrections, osv_date,
                   correction_type, account_closing_month, month_num,
                   total_closing_balance, total_future_installment>>
    /\ UNCHANGED <<hpc, hrow, account_rows, error_start>>
    /\ UNCHANGED <<reaccuralVars, gvsVars, filledVars, restVars>>

NextCorrection ==
    \/ ProcessHeatingCorrection
    \/ StartInstallment
    \/ WalkMonth
    \/ WalkRaises

\* the rows of the trigger month: a reaccural that is the year correction,
\* one that rounds to it, others
TriggerMonth == 13 - WalkLen
TriggerRows == {DetailsRow(500, r) : r \in {0, 100, -100, -104, -200}}
LaterRows == {DetailsRow(500, 100)}

CorrectionTables ==
    UNION {{t @@ u @@ EarlyTable(EarlyMonths) :
               t \in [YearMonths(ms) -> TriggerRows],
               u \in [YearMonths(ls) -> LaterRows]} :
           ms \in SUBSET {TriggerMonth},
           ls \in SUBSET (FreeMonths \ {TriggerMonth})}

InitCorrection ==
    /\ details \in CorrectionTables
    /\ osv_date = MonthYear(TriggerMonth, CurrentYear)
    /\ correction_month \in {TriggerMonth, TriggerMonth + 1}
    /\ heating_corrections \in CorrectionFiles
    /\ bpc = "start"
    /\ year_correction = 0
    /\ wpc = "idle"
    /\ correction_type = {}
    /\ account_closing_month = 0
    /\ month_num = 0
    /\ total_closing_balance = 0
    /\ total_future_installment = 0
    /\ rows = <<>>
    /\ gvs = <<>>
    /\ account = <<"1", "2">>
    /\ ObjectNew
    /\ HeatingIdle
    /\ GvsIdle
    /\ FilledIdle
    /\ RestIdle

SpecCorrection == InitCorrection /\ [][NextCorrection]_vars

(***************************************************************************)
(* The preconditions of the heating correction branch                      *)
(***************************************************************************)
\* the records of the account on the sheet of the last year
PriorYearRecords ==
    IF (CurrentYear - 1) \in DOMAIN heating_corrections
    THEN SelectSeq(heating_corrections[CurrentYear - 1],
                   LAMBDA r : r.account = account)
    ELSE <<>>

MonthReaccural ==
    IF osv_date \in DOMAIN details THEN details[osv_date].reaccural ELSE 0

\* the reaccural of the month to the nearest cent, mills
NearestCent(x) == CHOOSE c \in {10 * k : k \in -30..30} :
                      /\ Abs(x - c) <= 5
                      /\ (Abs(x - c) = 5 => (c \div 10) % 2 = 0)

\* C12: the branch adds rows only in the correction month of the building,
\* for an account whose month has a reaccural other than zero and which
\* has a record on the sheet of the last year; and for a negative year
\* correction that the reaccural, to the cent, does not equal, it adds no
\* row and returns.
C12_BranchPreconditions ==
    /\ rows # <<>> =>
          /\ osv_date.month = correction_month
          /\ MonthReaccural # 0
          /\ PriorYearRecords # <<>>
    /\ (/\ bpc # "start"
        /\ PriorYearRecords # <<>>
        /\ PriorYearRecords[1].year_correction < 0
        /\ NearestCent(MonthReaccural)
               # PriorYearRecords[1].year_correction) =>
          /\ rows = <<>>
          /\ bpc = "returned"
          /\ wpc = "idle"

C12_Witness ==
    /\ bpc = "returned"
    /\ osv_date.month = correction_month
    /\ PriorYearRecords # <<>>
    /\ PriorYearRecords[1].year_correction < 0
    /\ PriorYearRecords[1].sums[1] # 0
    /\ MonthReaccural < 0
    /\ NearestCent(MonthReaccural) # PriorYearRecords[1].year_correction
    /\ rows = <<>>

(***************************************************************************)
(* lib/detailsfile.py: the payment and the closing balance of a month, and *)
(* the records of the GVS details file of the month                        *)
(***************************************************************************)
ServiceRow(a, r, p, cb) ==
    [accural |-> a, reaccural |-> r, payment |-> p, closing_balance |-> cb]

get_service_month_payment(det, d) == det[d].payment

get_service_month_closing_balance(det, d) == det[d].closing_balance

GvsDetailsRecord(acc, counter_id, metric_date_current, metric_current, consumption) ==
    [account |-> acc,
     counter_id |-> counter_id,
     counter_number |-> NoValue,
     people_registered |-> 2,
     metric_date_current |-> metric_date_current,
     metric_current |-> metric_current,
     consumption_ipu |->
         IF counter_id # NoValue /\ metric_current # NoValue
         THEN consumption ELSE 0,
     consumption_average |->
         IF counter_id # NoValue /\ metric_current = NoValue
         THEN consumption ELSE 0,
     consumption_normative |->
         IF counter_id = NoValue THEN consumption ELSE 0]

\* GvsDetailsRecord.get_dummy_instance: every attribute None
DummyGvsDetailsRecord ==
    [account |-> NoValue, counter_id |-> NoValue, counter_number |-> NoValue,
     people_registered |-> 0, metric_date_current |-> NoValue,
     metric_current |-> NoValue, consumption_ipu |-> 0,
     consumption_average |-> 0, consumption_normative |-> 0]

MaxGvsDetails == 3
GvsAccount == <<"1", "2">>
ReadingDates == {"25", "26"}

\* a meter with a reading, a meter without one, no meter
MeterStates ==
    {<<Value("c1"), Value(7)>>, <<Value("c1"), NoValue>>,
     <<NoValue, NoValue>>}

GvsDetailsRecords ==
    {GvsDetailsRecord(GvsAccount, cm[1], Value(d), cm[2], 3) :
        cm \in MeterStates, d \in ReadingDates}
    \cup {GvsDetailsRecord(OtherAccount, Value("c9"), Value("25"),
                           Value(7), 3)}

GvsDetailsFiles ==
    UNION {[1..n -> GvsDetailsRecords] : n \in 0..MaxGvsDetails}

(***************************************************************************)
(* lib/resultfile.py: GvsSingleResultRow and the rows of a replacement.    *)
(* A row holds the fields the GVS rows set beside those of every row;      *)
(* fin holds the fields 23 to 45.                                          *)
(***************************************************************************)
FinFields == 23..45

\* f"{x:.4f}": x to four decimals, the nearest
QuantityOf(amount, price) ==
    LET n == amount * 10000
        q == n \div price
        r == n - q * price
    IN  IF 2 * r > price \/ (2 * r = price /\ q % 2 = 1) THEN q + 1 ELSE q

get_new_counter_number(seed) == <<seed[1], "_2">>

GvsSingleResultRow(date0, acc, accural, det, record, price, dates) ==
    LET has_counter ==
            record.counter_id # NoValue \/ record.counter_number # NoValue
        has_metric == record.metric_current # NoValue
        quantity == Value(QuantityOf(accural.gvs, price))
        payment_sum ==
            IF HasRow(det, date0) THEN get_service_month_payment(det, date0)
            ELSE 0
        closing_balance ==
            IF HasRow(det, date0)
            THEN get_service_month_closing_balance(det, date0)
            ELSE 0
        paid == Value(<<20, date0.month, date0.year>>)
        fin == [i \in FinFields |->
                  IF i \in {23} /\ record.consumption_ipu # 0 THEN quantity
                  ELSE IF i \in {24, 25} /\ record.consumption_ipu # 0
                  THEN Value(accural.gvs)
                  ELSE IF i \in {26} /\ record.consumption_average # 0
                  THEN quantity
                  ELSE IF i \in {27, 28} /\ record.consumption_average # 0
                  THEN Value(accural.gvs)
                  ELSE IF i \in {30} /\ record.consumption_normative # 0
                  THEN Value(record.people_registered)
                  ELSE IF i \in {31} /\ record.consumption_normative # 0
                  THEN quantity
                  ELSE IF i \in {32, 33} /\ record.consumption_normative # 0
                  THEN Value(accural.gvs)
                  ELSE IF i = 35 THEN quantity
                  ELSE IF i \in {36, 37} THEN Value(accural.gvs)
                  ELSE IF i \in {40, 41} /\ payment_sum # 0 THEN paid
                  ELSE IF i = 42 /\ payment_sum # 0 THEN Value(payment_sum)
                  ELSE IF i = 43 /\ payment_sum # 0
                  THEN Value(IF payment_sum >= 0 THEN "payment"
                             ELSE "refund")
                  ELSE IF i = 45 THEN Value(closing_balance)
                  ELSE NoValue]
    IN  [kind |-> "GVS_ACCURAL",
         date |-> date0,
         account |-> acc,
         f09 |-> IF has_counter THEN Value("individual") ELSE NoValue,
         f10 |-> IF has_counter
                 THEN (IF acc \in DOMAIN dates THEN dates[acc]
                       ELSE Value("01.01.2019"))
                 ELSE NoValue,
         f14 |-> IF ~has_counter THEN NoValue
                 ELSE IF record.counter_number = NoValue
                 THEN Value(get_new_counter_number(record.counter_id))
                 ELSE record.counter_number,
         f19 |-> IF has_counter /\ has_metric
                 THEN record.metric_date_current ELSE NoValue,
         f20 |-> IF has_counter /\ has_metric
                 THEN Value("from the subscriber") ELSE NoValue,
         f21 |-> IF has_counter /\ has_metric
                 THEN record.metric_current ELSE NoValue,
         f22 |-> IF has_counter THEN Value(record.consumption_ipu)
                 ELSE NoValue,
         fin |-> fin]

RemovalMark == Value("on removal of the meter")
InstallMark == Value("on installation")

\* the mark of a row whose record holds a current reading
MarkedWhenReading(row, record, mark) ==
    IF record.metric_current # NoValue THEN [row EXCEPT !.f20 = mark]
    ELSE row

GvsMultipleResultFirstRow(date0, acc, accural, det, record, price, dates) ==
    MarkedWhenReading(
        GvsSingleResultRow(date0, acc, accural, det, record, price, dates),
        record, RemovalMark)

\* for i in range(23, 46)
ClearedFieldsFrom24 == 24..45
ClearedFields == 23..45

GvsMultipleResultSecondRow(date0, acc, accural, det, record, price, dates) ==
    LET row == GvsSingleResultRow(date0, acc, accural, det, record, price,
                                  dates)
        marked == MarkedWhenReading(row, record, InstallMark)
    IN  [marked EXCEPT
             !.f10 = record.metric_date_current,
             !.fin = [i \in FinFields |->
                        IF i \in ClearedFields THEN NoValue
                        ELSE marked.fin[i]]]

(***************************************************************************)
(* main.py: RegionDir._add_initial_balance_row and RegionDir._process_gvs  *)
(***************************************************************************)
HEATING == "HEATING"
GVS == "GVS"
GVS_ELEVATED == "GVS_ELEVATED"

\* the opening balance row of a service
OpeningBalanceResultRow(date0, acc, service) ==
    [kind |-> "OPENING_BALANCE", date |-> date0, account |-> acc,
     service |-> service]

\* line 228, service in self.account_details.seen_opening_balance
IsSeenNever(seen, service) == FALSE
IsSeen(seen, service) == \E i \in 1..Len(seen) : seen[i] = service

\* lines 227-268: the rows the call adds and the services seen after it
add_initial_balance_row(seen, date0, acc, service) ==
    IF IsSeen(seen, service) THEN [rows |-> <<>>, seen |-> seen]
    ELSE [rows |-> <<OpeningBalanceResultRow(date0, acc, service)>>,
          seen |-> Append(seen, service)]

\* lines 296-302, the test that starts each operation of a month
AnyOf(values) == \E i \in 1..Len(values) : values[i] # 0

\* lines 315-322: of more than two records the first and the last are kept
FirstAndLast(gvs_details_rows) ==
    IF Len(gvs_details_rows) > 2
    THEN <<gvs_details_rows[1], gvs_details_rows[Len(gvs_details_rows)]>>
    ELSE gvs_details_rows

\* lines 323-379: the rows of the month and the install dates they leave
GvsRowsOf(date0, acc, accural, det, gvs_details_rows, price, dates) ==
    IF Len(gvs_details_rows) = 0
    THEN LET closing_balance ==
                 IF HasRow(det, date0)
                 THEN get_service_month_closing_balance(det, date0)
                 ELSE 0
         IN  [rows |-> IF closing_balance # 0 \/ accural.payment # 0
                       THEN <<GvsSingleResultRow(date0, acc, accural, det,
                                  DummyGvsDetailsRecord, price, dates)>>
                       ELSE <<>>,
              dates |-> dates]
    ELSE IF Len(gvs_details_rows) = 1
    THEN [rows |-> <<GvsSingleResultRow(date0, acc, accural, det,
                         gvs_details_rows[1], price, dates)>>,
          dates |-> dates]
    ELSE [rows |-> <<GvsMultipleResultFirstRow(date0, acc, accural, det,
                         gvs_details_rows[1], price, dates),
                     GvsMultipleResultSecondRow(date0, acc, accural, det,
                         gvs_details_rows[2], price, dates)>>,
          dates |-> [a \in DOMAIN dates \cup {gvs_details_rows[2].account}
                        |-> IF a = gvs_details_rows[2].account
                            THEN gvs_details_rows[2].metric_date_current
                            ELSE dates[a]]]

ProcessGvs ==
    /\ gpc = "start"
    /\ IF ~AnyOf(<<osv_accural.heating, osv_accural.gvs,
                   osv_accural.reaccural, osv_accural.payment>>)
       THEN /\ gpc' = "returned"
            /\ UNCHANGED <<rows, GvsIpuInstallDates, seen_opening_balance>>
       ELSE \E price \in Tariffs :
            LET gvs_details_rows ==
                    FirstAndLast(as_filtered_list(gvs, <<"account">>,
                                                  TupleOf(account)))
                built == GvsRowsOf(osv_date, account, osv_accural, details,
                                   gvs_details_rows, price,
                                   GvsIpuInstallDates)
                opening == add_initial_balance_row(seen_opening_balance,
                                                   osv_date, account, GVS)
            IN  /\ rows' = rows \o built.rows \o opening.rows
                /\ GvsIpuInstallDates' = built.dates
                /\ seen_opening_balance' = opening.seen
                /\ gpc' = "done"
    /\ UNCHANGED <<osv_accural, osv_date, year_correction, wpc,
                   correction_type, account_closing_month, month_num,
                   total_closing_balance, total_future_installment>>
    /\ UNCHANGED <<reaccuralVars, heatingVars, correctionVars, filledVars,
                   restVars>>

NextGvs == ProcessGvs

OsvAccurals ==
    {NoAccural, [NoAccural EXCEPT !.gvs = 20],
     [NoAccural EXCEPT !.payment = 10]}

GvsServiceTables ==
    {<<>>} \cup {[d \in {ReaccuralDate} |-> row] :
                    row \in {ServiceRow(20, 0, 10, 30)}}

\* an earlier replacement has left an install date or none
InstallDatesBefore ==
    {<<>>, [a \in {GvsAccount} |-> Value("24")]}

InitGvs ==
    /\ details \in GvsServiceTables
    /\ gvs \in GvsDetailsFiles
    /\ account = GvsAccount
    /\ osv_accural \in OsvAccurals
    /\ GvsIpuInstallDates \in InstallDatesBefore
    /\ seen_opening_balance = <<>>
    /\ gpc = "start"
    /\ osv_date = ReaccuralDate
    /\ year_correction = 0
    /\ wpc = "idle"
    /\ correction_type = {}
    /\ account_closing_month = 0
    /\ month_num = 0
    /\ total_closing_balance = 0
    /\ total_future_installment = 0
    /\ rows = <<>>
    /\ ObjectNew
    /\ HeatingIdle
    /\ CorrectionIdle
    /\ FilledIdle
    /\ RestIdle

SpecGvs == InitGvs /\ [][NextGvs]_vars

(***************************************************************************)
(* The two rows of a meter replacement                                     *)
(***************************************************************************)
\* the records of the account in the GVS details file of the month
OwnGvsRecords == SelectSeq(gvs, LAMBDA r : r.account = account)

\* the GVS accural rows on the sheet
GvsAccuralRows == SelectSeq(rows, LAMBDA r : r.kind = "GVS_ACCURAL")

HasReading(record) == record.metric_current # NoValue

SecondRowCleared ==
    \A i \in 23..45 : GvsAccuralRows[2].fin[i] = NoValue

\* C13 as claimed: two records of the account give two GVS accural rows,
\* the first marked as removal, the second marked as installation with the
\* fields 23 to 45 null, and the install date of the account is the second
\* record's current reading date.
C13_Original ==
    (gpc \in {"done", "returned"} /\ Len(OwnGvsRecords) = 2) =>
        /\ Len(GvsAccuralRows) = 2
        /\ GvsAccuralRows[1].f20 = RemovalMark
        /\ GvsAccuralRows[2].f20 = InstallMark
        /\ SecondRowCleared
        /\ account \in DOMAIN GvsIpuInstallDates
        /\ GvsIpuInstallDates[account] = OwnGvsRecords[2].metric_date_current

\* C13 as amended: an account whose OSV record holds no amount gets no
\* row; for an account whose OSV record holds an amount other than zero,
\* two records of the account give two GVS accural rows in
\* that order; the first is marked as removal and the second as
\* installation exactly when its own record holds a current reading; the
\* second has the fields 23 to 45 null and the reading date of its record
\* as field 10, and the install date of the account is that date.
C13_TwoRows ==
    /\ (gpc # "start" /\ osv_accural = NoAccural) =>
           gpc = "returned" /\ rows = <<>>
    /\ (gpc # "start" /\ osv_accural # NoAccural) => gpc = "done"
    /\ (gpc = "done" /\ Len(OwnGvsRecords) = 2) =>
        /\ Len(GvsAccuralRows) = 2
        /\ rows[1] = GvsAccuralRows[1] /\ rows[2] = GvsAccuralRows[2]
        /\ (GvsAccuralRows[1].f20 = RemovalMark)
               <=> HasReading(OwnGvsRecords[1])
        /\ (GvsAccuralRows[2].f20 = InstallMark)
               <=> HasReading(OwnGvsRecords[2])
        /\ ~HasReading(OwnGvsRecords[2]) => GvsAccuralRows[2].f20 = NoValue
        /\ SecondRowCleared
        /\ GvsAccuralRows[2].f10 = OwnGvsRecords[2].metric_date_current
        /\ account \in DOMAIN GvsIpuInstallDates
        /\ GvsIpuInstallDates[account] = OwnGvsRecords[2].metric_date_current

C13_Witness ==
    /\ gpc = "done"
    /\ Len(gvs) = 3
    /\ Len(OwnGvsRecords) = 2
    /\ HasReading(OwnGvsRecords[1]) /\ HasReading(OwnGvsRecords[2])
    /\ OwnGvsRecords[1].metric_date_current
           # OwnGvsRecords[2].metric_date_current
    /\ account \in DOMAIN GvsIpuInstallDates
    /\ GvsIpuInstallDates[account] = OwnGvsRecords[2].metric_date_current
    /\ GvsAccuralRows[1].fin[36] # NoValue
    /\ GvsAccuralRows[1].f10 = Value("24")

(***************************************************************************)
(* lib/filledresultfile.py: the result table opened for the second time.   *)
(* A raw record holds the columns the passes read; the cells U (field 20), *)
(* K (field 10) and AT (field 45) of a row are those the passes write.     *)
(***************************************************************************)
HEADER_ROW == 3

FilledResultRawRecord(type_name, date0, acc, counter_number, closing_balance) ==
    [type_name |-> type_name,
     month |-> date0.month,
     year |-> date0.year,
     account |-> acc,
     counter_number |-> counter_number,
     metric_date |-> Value(date0.month),
     f10 |-> IF counter_number = NoValue THEN NoValue ELSE Value(0),
     f20 |-> IF counter_number = NoValue THEN NoValue
             ELSE Value("from the subscriber"),
     closing_balance |-> closing_balance]

\* the record at index i of the list sits in row i + header_row + 1, the
\* list counting from 0
RowNum(j) == j - 1 + HEADER_ROW + 1

RowNums(raw) == {RowNum(j) : j \in 1..Len(raw)}

\* the cells of the sheet that holds the records
SheetOf(raw) ==
    [n \in RowNums(raw) |->
        LET rec == raw[n - HEADER_ROW]
        IN  [U |-> rec.f20, K |-> rec.f10, AT |-> rec.closing_balance]]

\* FilledResultTable.records_to_class, lines 154-171, for GvsIpuMetric:
\* the records that pass the filter, each with the number of its row
RECURSIVE records_to_class(_, _, _)
records_to_class(raw, type_names, j) ==
    IF j > Len(raw) THEN <<>>
    ELSE IF raw[j].type_name \notin type_names
    THEN records_to_class(raw, type_names, j + 1)
    ELSE <<[row_num |-> RowNum(j),
            date |-> MonthYear(raw[j].month, raw[j].year),
            account |-> raw[j].account,
            type_name |-> raw[j].type_name,
            counter_number |-> raw[j].counter_number,
            metric_date |-> raw[j].metric_date,
            closing_balance |-> raw[j].closing_balance]>>
         \o records_to_class(raw, type_names, j + 1)

\* line 208, current_el.counter_number != next_el.counter_number
IsReplacedWhenBothMetered(current_el, next_el) ==
    /\ current_el.counter_number # NoValue
    /\ next_el.counter_number # NoValue
    /\ current_el.counter_number # next_el.counter_number
IsReplaced(current_el, next_el) ==
    current_el.counter_number # next_el.counter_number

\* line 216, GvsIpuInstallDates[gvs_account] = next_el.metric_date
InstallDateKept(dates, acc, metric_date) == dates
InstallDateSet(dates, acc, metric_date) ==
    [a \in DOMAIN dates \cup {acc} |->
        IF a = acc THEN metric_date ELSE dates[a]]

\* lines 200-223: the pairs of one account from pair i on
RECURSIVE ReplacementsFrom(_, _, _, _, _, _)
ReplacementsFrom(counters, i, ignore_next, acc, sheet, dates) ==
    IF i > Len(counters) - 1 THEN [sheet |-> sheet, dates |-> dates]
    ELSE
    LET current_el == counters[i]
        next_el == counters[i + 1]
    IN  IF ignore_next
        THEN ReplacementsFrom(counters, i + 1, FALSE, acc, sheet, dates)
        ELSE IF current_el.date = next_el.date
        THEN ReplacementsFrom(counters, i + 1, TRUE, acc, sheet, dates)
        ELSE
        LET replaced == IsReplaced(current_el, next_el)
            removed ==
                IF replaced
                THEN [sheet EXCEPT ![current_el.row_num].U = RemovalMark]
                ELSE sheet
            installed ==
                IF replaced /\ next_el.counter_number # NoValue
                THEN [removed EXCEPT ![next_el.row_num].U = InstallMark]
                ELSE removed
            dates1 ==
                IF replaced
                THEN InstallDateSet(dates, acc, next_el.metric_date)
                ELSE dates
            dated ==
                IF acc \in DOMAIN dates1
                THEN [installed EXCEPT ![next_el.row_num].K = dates1[acc]]
                ELSE installed
        IN  ReplacementsFrom(counters, i + 1, FALSE, acc, dated, dates1)

\* lines 193-199: the accounts of the records, one after another
RECURSIVE find_gvs_ipu_replacements(_, _, _, _)
find_gvs_ipu_replacements(records0, gvs_accounts, sheet, dates) ==
    IF gvs_accounts = {} THEN [sheet |-> sheet, dates |-> dates]
    ELSE LET gvs_account == CHOOSE a \in gvs_accounts : TRUE
             counters == as_filtered_list(records0, <<"account">>,
                                          TupleOf(gvs_account))
             done == ReplacementsFrom(counters, 1, FALSE, gvs_account,
                                      sheet, dates)
         IN  find_gvs_ipu_replacements(records0,
                 gvs_accounts \ {gvs_account}, done.sheet, done.dates)

get_field_values(records0, field) ==
    {records0[i][field] : i \in 1..Len(records0)}

GVS_ACCURAL == "GVS_ACCURAL"
HEATING_ACCURAL == "HEATING_ACCURAL"
HEATING_POSITIVE_CORRECTION == "HEATING_POSITIVE_CORRECTION"

MaxRuns == 2

\* main.py lines 816-822 and FilledTableUpdater.find_gvs_ipu_replacements
FindGvsIpuReplacements ==
    /\ runs < MaxRuns
    /\ LET records0 == records_to_class(table_records, {GVS_ACCURAL}, 1)
           done == find_gvs_ipu_replacements(
                       records0, get_field_values(records0, "account"),
                       active_sheet, GvsIpuInstallDates)
       IN  /\ active_sheet' = done.sheet
           /\ GvsIpuInstallDates' = done.dates
    /\ runs' = runs + 1
    /\ UNCHANGED <<table_records, fpc, osv_accural, seen_opening_balance,
                   gpc>>
    /\ UNCHANGED <<reaccuralVars, heatingVars, walkVars, correctionVars,
                   restVars>>

NextReplacement == FindGvsIpuReplacements

(***************************************************************************)
(* The tables of the pass: up to MaxFilledRows rows in the order the run   *)
(* wrote them, month after month.                                          *)
(***************************************************************************)
MaxFilledRows == 4
FilledMonths == 1..3
CounterNumbers == {NoValue, Value("m1"), Value("m2")}

GvsFilledRecords ==
    {FilledResultRawRecord(GVS_ACCURAL, MonthYear(m, CurrentYear),
                           GvsAccount, c, 0) :
        m \in FilledMonths, c \in CounterNumbers}
    \cup {FilledResultRawRecord(GVS_ACCURAL, MonthYear(2, CurrentYear),
                                OtherAccount, Value("m9"), 0),
          FilledResultRawRecord(HEATING_ACCURAL, MonthYear(2, CurrentYear),
                                GvsAccount, NoValue, 0)}

InMonthOrder(raw) ==
    \A j \in 1..(Len(raw) - 1) : raw[j].month <= raw[j + 1].month

\* _process_gvs adds one GVS row or two for an account's month
AtMostTwoAMonth(raw) ==
    \A i, j, k \in 1..Len(raw) :
        (/\ i < j /\ j < k
         /\ raw[i].type_name = GVS_ACCURAL
         /\ raw[j].type_name = GVS_ACCURAL
         /\ raw[k].type_name = GVS_ACCURAL
         /\ raw[i].account = raw[j].account
         /\ raw[j].account = raw[k].account)
        => raw[i].month # raw[k].month

GvsFilledTables ==
    UNION {{raw \in [1..n -> GvsFilledRecords] :
               InMonthOrder(raw) /\ AtMostTwoAMonth(raw)} :
           n \in 0..MaxFilledRows}

InitReplacement ==
    /\ table_records \in GvsFilledTables
    /\ active_sheet = SheetOf(table_records)
    /\ runs = 0
    /\ fpc = "idle"
    /\ GvsIpuInstallDates \in {<<>>, [a \in {GvsAccount} |-> Value(0)]}
    /\ osv_accural = NoAccural
    /\ seen_opening_balance = <<>>
    /\ gpc = "idle"
    /\ details = <<>>
    /\ gvs = <<>>
    /\ account = GvsAccount
    /\ ObjectNew
    /\ HeatingIdle
    /\ WalkIdle
    /\ CorrectionIdle
    /\ RestIdle

SpecReplacement == InitReplacement /\ [][NextReplacement]_vars

(***************************************************************************)
(* The marks of the meter replacement pass                                 *)
(***************************************************************************)
\* the GVS rows of an account, in row order
CountersOf(acc) ==
    SelectSeq(records_to_class(table_records, {GVS_ACCURAL}, 1),
              LAMBDA r : r.account = acc)

FilledAccounts == {GvsAccount, OtherAccount}

\* field 20 of the row as the pass found it
OriginalU(n) == table_records[n - HEADER_ROW].f20

\* rows i and i + 1 differ in period and in meter number
DifferentPair(cs, i) ==
    /\ cs[i].date # cs[i + 1].date
    /\ cs[i].counter_number # cs[i + 1].counter_number

\* row i is the second of two rows of one period
SecondOfPeriod(cs, i) == i > 1 /\ cs[i - 1].date = cs[i].date

\* a pair the pass takes for a replacement
FoundPair(cs, i) == DifferentPair(cs, i) /\ ~SecondOfPeriod(cs, i)

\* C14 as claimed: of two consecutive rows of an account that differ in
\* period and in meter number the earlier is marked removed and the later,
\* if it has a meter number, installed; a row that is in no such pair
\* keeps its mark.
C14_Original ==
    runs >= 1 =>
        \A acc \in FilledAccounts :
            LET cs == CountersOf(acc)
            IN  /\ \A i \in 1..(Len(cs) - 1) :
                      DifferentPair(cs, i) =>
                          /\ active_sheet[cs[i].row_num].U = RemovalMark
                          /\ cs[i + 1].counter_number # NoValue =>
                                active_sheet[cs[i + 1].row_num].U
                                    = InstallMark
                /\ \A k \in 1..Len(cs) :
                      (/\ k < Len(cs) => ~DifferentPair(cs, k)
                       /\ k > 1 => ~DifferentPair(cs, k - 1)) =>
                          active_sheet[cs[k].row_num].U
                              = OriginalU(cs[k].row_num)

\* C14 as amended: the pass takes two consecutive rows of an account for a
\* replacement when they differ in period and in meter number and the
\* earlier is not the second of two rows of one period.  After the pass
\* the earlier row of such a pair is marked removed; the later row is
\* marked installed if it has a meter number and is not itself the earlier
\* row of the next such pair; every other row keeps its mark.
C14_Marks ==
    runs >= 1 =>
        /\ \A acc \in FilledAccounts :
              LET cs == CountersOf(acc)
              IN  \A k \in 1..Len(cs) :
                      active_sheet[cs[k].row_num].U =
                          IF k < Len(cs) /\ FoundPair(cs, k)
                          THEN RemovalMark
                          ELSE IF /\ k > 1
                                  /\ FoundPair(cs, k - 1)
                                  /\ cs[k].counter_number # NoValue
                          THEN InstallMark
                          ELSE OriginalU(cs[k].row_num)
        /\ \A n \in DOMAIN active_sheet :
              table_records[n - HEADER_ROW].type_name # GVS_ACCURAL =>
                  active_sheet[n].U = OriginalU(n)

C14_Witness ==
    /\ runs = 1
    /\ LET cs == CountersOf(GvsAccount)
       IN  /\ Len(cs) = 4
           /\ cs[1].date = cs[2].date
           /\ DifferentPair(cs, 2)
           /\ FoundPair(cs, 3)
           /\ active_sheet[cs[2].row_num].U = OriginalU(cs[2].row_num)
           /\ active_sheet[cs[3].row_num].U = RemovalMark
           /\ active_sheet[cs[4].row_num].U = InstallMark

(***************************************************************************)
(* The pass run a second time                                              *)
(***************************************************************************)
SecondRun == runs = 1 /\ runs' = 2

FoundBefore(cs, k) == \E j \in 1..(k - 1) : FoundPair(cs, j)

\* the later row of the last pair taken for a replacement
LastInstalled(cs) ==
    LET j == CHOOSE i \in 1..(Len(cs) - 1) :
                 /\ FoundPair(cs, i)
                 /\ \A l \in (i + 1)..(Len(cs) - 1) : ~FoundPair(cs, l)
    IN  cs[j + 1]

\* the pass writes the install date of row k: the row ends a pair of two
\* periods whose earlier row is not the second of a period
DateWritten(cs, k) ==
    /\ k > 1
    /\ cs[k - 1].date # cs[k].date
    /\ ~SecondOfPeriod(cs, k - 1)

DecreasedBalanceAdded(accural_row, correction) ==
    accural_row.closing_balance + correction.closing_balance
DecreasedBalance(accural_row, correction) ==
    accural_row.closing_balance - correction.closing_balance

\* lines 242-248: the accrual rows of the correction's account, read again
\* only when the account changes
AccountAccurals(account_accurals, heating_accurals, correction) ==
    IF account_accurals = <<>>
       \/ correction.account # account_accurals[1].account
    THEN LET OfAccount(rec) == rec.account = correction.account
         IN  SelectSeq(heating_accurals, OfAccount)
    ELSE account_accurals

\* lines 241-264: the correction rows from the k-th on
RECURSIVE DecreaseFrom(_, _, _, _, _)
DecreaseFrom(corrections, k, heating_accurals, account_accurals, sheet) ==
    IF k > Len(corrections) THEN [sheet |-> sheet, raised |-> FALSE]
    ELSE
    LET correction == corrections[k]
        accurals == AccountAccurals(account_accurals, heating_accurals,
                                    correction)
        OfDate(rec) == rec.date = correction.date
        account_date_accurals == SelectSeq(accurals, OfDate)
    IN  IF Len(account_date_accurals) = 0
        THEN DecreaseFrom(corrections, k + 1, heating_accurals, accurals,
                          sheet)
        ELSE IF Len(account_date_accurals) > 1
        THEN [sheet |-> sheet, raised |-> TRUE]
        ELSE
        LET accural_row == account_date_accurals[1]
        IN  DecreaseFrom(corrections, k + 1, heating_accurals, accurals,
                [sheet EXCEPT ![accural_row.row_num].AT =
                    DecreasedBalance(accural_row, correction)])

\* the records of the types that main.py lines 823-830 let through
BalanceRecords(raw) ==
    records_to_class(raw, {HEATING_ACCURAL, HEATING_POSITIVE_CORRECTION}, 1)

decrease_closing_balance(raw, sheet) ==
    LET records0 == BalanceRecords(raw)
        corrections == as_filtered_list(records0, <<"type_name">>,
                                        TupleOf(HEATING_POSITIVE_CORRECTION))
        heating_accurals == as_filtered_list(records0, <<"type_name">>,
                                             TupleOf(HEATING_ACCURAL))
    IN  DecreaseFrom(corrections, 1, heating_accurals, <<>>, sheet)

DecreaseClosingBalance ==
    /\ fpc = "start"
    /\ LET done == decrease_closing_balance(table_records, active_sheet)
       IN  /\ active_sheet' = done.sheet
           /\ fpc' = IF done.raised THEN "raised" ELSE "done"
    /\ UNCHANGED <<table_records, runs>>
    /\ UNCHANGED <<reaccuralVars, heatingVars, walkVars, correctionVars,
                   gvsVars, restVars>>

NextBalance == DecreaseClosingBalance

(***************************************************************************)
(* The tables of the pass: heating accrual rows, the positive correction   *)
(* rows the installment walk wrote, and a row of another type.  The walk   *)
(* computes the balance of a correction row from the account's details,    *)
(* so two correction rows of one account and date carry one balance.       *)
(***************************************************************************)
MaxBalanceRows == 3
BalanceMonths == 1..2
CorrectionBalances == {1000, 3000}

HeatingFilledRecords ==
    {FilledResultRawRecord(HEATING_ACCURAL, MonthYear(m, CurrentYear), acc,
                           NoValue, 5000 + 2000 * m) :
        m \in BalanceMonths, acc \in {GvsAccount, OtherAccount}}
    \cup {FilledResultRawRecord(HEATING_POSITIVE_CORRECTION,
                                MonthYear(m, CurrentYear), acc, NoValue, b) :
            m \in BalanceMonths, acc \in {GvsAccount, OtherAccount},
            b \in CorrectionBalances}
    \cup {FilledResultRawRecord(GVS_ACCURAL, MonthYear(1, CurrentYear),
                                GvsAccount, Value("m1"), 4000)}

OneBalanceACorrection(raw) ==
    \A i, j \in 1..Len(raw) :
        (/\ raw[i].type_name = HEATING_POSITIVE_CORRECTION
         /\ raw[j].type_name = HEATING_POSITIVE_CORRECTION
         /\ raw[i].account = raw[j].account
         /\ raw[i].month = raw[j].month
         /\ raw[i].year = raw[j].year)
        => raw[i].closing_balance = raw[j].closing_balance

HeatingFilledTables ==
    UNION {{raw \in [1..n -> HeatingFilledRecords] :
               OneBalanceACorrection(raw)} :
           n \in 0..MaxBalanceRows}

InitBalance ==
    /\ table_records \in HeatingFilledTables
    /\ active_sheet = SheetOf(table_records)
    /\ runs = 0
    /\ fpc = "start"
    /\ GvsIdle
    /\ details = <<>>
    /\ gvs = <<>>
    /\ account = GvsAccount
    /\ ObjectNew
    /\ HeatingIdle
    /\ WalkIdle
    /\ CorrectionIdle
    /\ RestIdle

SpecBalance == InitBalance /\ [][NextBalance]_vars

\* the typed rows of the table, by type
TypedRows(type_name) ==
    {r \in {BalanceRecords(table_records)[i] :
                i \in 1..Len(BalanceRecords(table_records))} :
        r.type_name = type_name}

\* the heating accrual rows with the account and date of a correction row
MatchingAccurals(c) ==
    {a \in TypedRows(HEATING_ACCURAL) :
        a.account = c.account /\ a.date = c.date}

\* the correction rows with the account and date of an accrual row
MatchingCorrections(a) ==
    {c \in TypedRows(HEATING_POSITIVE_CORRECTION) :
        c.account = a.account /\ c.date = a.date}

\* C16: after decrease_closing_balance the closing balance cell of the one
\* heating accrual row that has the account and date of a positive
\* correction row is the balance read for it minus that of the correction
\* row; the pass raises exactly when some correction row has more than one
\* such accrual row; an accrual row matched by no correction row keeps its
\* balance, and so does every cell of every other row.
C16_DecreasedBalance ==
    /\ fpc = "done" =>
        /\ \A c \in TypedRows(HEATING_POSITIVE_CORRECTION) :
              /\ Cardinality(MatchingAccurals(c)) <= 1
              /\ \A a \in MatchingAccurals(c) :
                    active_sheet[a.row_num].AT
                        = a.closing_balance - c.closing_balance
        /\ \A n \in RowNums(table_records) :
              (\A c \in TypedRows(HEATING_POSITIVE_CORRECTION) :
                  \A a \in MatchingAccurals(c) : a.row_num # n)
              => active_sheet[n] = SheetOf(table_records)[n]
    /\ fpc = "raised" =>
        /\ \E c \in TypedRows(HEATING_POSITIVE_CORRECTION) :
              Cardinality(MatchingAccurals(c)) > 1
        /\ \A a \in TypedRows(HEATING_ACCURAL) :
              MatchingCorrections(a) = {}
              => active_sheet[a.row_num] = SheetOf(table_records)[a.row_num]
    /\ fpc \in {"done", "raised"} =>
        \A n \in RowNums(table_records) :
            /\ active_sheet[n].U = SheetOf(table_records)[n].U
            /\ active_sheet[n].K = SheetOf(table_records)[n].K

\* a pass that has decreased one accrual row's balance and left another's,
\* in a table with a correction row that no accrual row matches
C16_Witness ==
    /\ fpc = "done"
    /\ \E c \in TypedRows(HEATING_POSITIVE_CORRECTION) :
          \E a \in MatchingAccurals(c) :
              /\ active_sheet[a.row_num].AT = a.closing_balance - c.closing_balance
              /\ active_sheet[a.row_num].AT # a.closing_balance
    /\ \E a \in TypedRows(HEATING_ACCURAL) : MatchingCorrections(a) = {}

(***************************************************************************)
(* main.py: RegionDir._process_osv, the rows of the OSV files one after    *)
(* another.  Each row is an account's month; its heating, GVS and GVS      *)
(* elevated rows are added in turn, each followed by the opening balance   *)
(* row of the service.                                                     *)
(***************************************************************************)
MaxOsvRows == 2

Services == {HEATING, GVS, GVS_ELEVATED}
RunAccounts == {GvsAccount, OtherAccount}
RunDates ==
    {MonthYear(ReaccuralDate.month + k, ReaccuralDate.year) :
        k \in 0..(MaxOsvRows + 1)}

\* the details file of an account, by service: no row for any month, or a
\* row with an accrual, a payment and a balance for every month
TableOf(row) == [d \in RunDates |-> row]
NoRows == [s \in Services |-> <<>>]
PaidRows == [s \in Services |-> TableOf(ServiceRow(20, 0, 10, 30))]
DetailsFiles == {NoRows, PaidRows}

MonthAccurals ==
    {NoAccural, [NoAccural EXCEPT !.gvs = 20],
     [NoAccural EXCEPT !.heating = 30]}

\* the GVS details file of a month: a record of the one account that has
\* a hot water meter
GvsFileOf(acc) ==
    IF acc = GvsAccount
    THEN <<GvsDetailsRecord(acc, Value("c1"), Value("25"), Value(7), 3)>>
    ELSE <<>>

\* the list of services a new details object starts with
DetailsNew == <<>>

\* helpers.py lines 216-222, SingletonWithArg.__call__: one object for an
\* account, made when the account is first met
AccountDetailsFileSingleton(made, acc, file) ==
    IF acc \in DOMAIN made THEN made
    ELSE [a \in DOMAIN made \cup {acc} |->
            IF a = acc THEN [records |-> file, seen |-> DetailsNew]
            ELSE made[a]]

\* account_details is a reference to the object of the account: what has
\* been appended to its list stays with the object
Stored(made, acc, seen) ==
    IF acc \in DOMAIN made THEN [made EXCEPT ![acc].seen = seen] ELSE made

\* lib/resultfile.py lines 85-138, HeatingResultRow: the fields of the
\* total, the payment and the closing balance
HeatingResultRow(date0, acc, accural, det, price) ==
    LET payment_sum == get_service_month_payment(det, date0)
        paid == Value(<<20, date0.month, date0.year>>)
    IN  [kind |-> HEATING_ACCURAL,
         date |-> date0,
         account |-> acc,
         fin |-> [i \in FinFields |->
                    IF i = 35 THEN Value(QuantityOf(accural.heating, price))
                    ELSE IF i \in {36, 37} THEN Value(accural.heating)
                    ELSE IF i \in {40, 41} /\ payment_sum # 0 THEN paid
                    ELSE IF i = 42 /\ payment_sum # 0
                    THEN Value(payment_sum)
                    ELSE IF i = 43 /\ payment_sum # 0
                    THEN Value(IF payment_sum >= 0 THEN "payment"
                               ELSE "refund")
                    ELSE IF i = 45
                    THEN Value(get_service_month_closing_balance(det, date0))
                    ELSE NoValue]]

\* lib/resultfile.py lines 375-424, GvsElevatedResultRow: the GVS row of
\* the service with the accrual of the details file in place of the OSV one
ElevatedAccural(det, date0) ==
    IF HasRow(det, date0) THEN get_service_month_accural(det, date0) ELSE 0

GvsElevatedResultRow(date0, acc, accural, det, record, price, dates) ==
    LET accural_sum == ElevatedAccural(det, date0)
        row == GvsSingleResultRow(date0, acc,
                                  [accural EXCEPT !.gvs = accural_sum],
                                  det, record, price, dates)
    IN  [row EXCEPT !.kind = GVS_ELEVATED,
                    !.f19 = NoValue, !.f20 = NoValue,
                    !.f21 = NoValue, !.f22 = NoValue]

\* lines 425-432: not any((accural_sum, payment_sum, closing_balance))
ZeroData(row) ==
    /\ row.fin[36] = Value(0)
    /\ row.fin[42] = NoValue
    /\ row.fin[45] = Value(0)

\* lines 720-737: the next row of the OSV file, or the first of the next
NextOsvRow ==
    /\ opc = "next"
    /\ osv_rows < MaxOsvRows
    /\ \E acc \in RunAccounts, d \in {osv_date, next(osv_date)},
          accural \in MonthAccurals, file \in DetailsFiles :
          LET made == AccountDetailsFileSingleton(
                          Stored(instances, account, seen_opening_balance),
                          acc, file)
          IN  /\ instances' = made
              /\ account' = acc
              /\ osv_date' = d
              /\ osv_accural' = accural
              /\ gvs' = GvsFileOf(acc)
              /\ details' = made[acc].records[GVS]
              /\ seen_opening_balance' = made[acc].seen
    /\ opc' = "heating"
    /\ gpc' = "idle"
    /\ osv_rows' = osv_rows + 1
    /\ UNCHANGED <<pc, date, reaccural_sum, totalsum, valid, records, type>>
    /\ UNCHANGED <<year_correction, wpc, correction_type,
                   account_closing_month, month_num, total_closing_balance,
                   total_future_installment, rows, GvsIpuInstallDates>>
    /\ UNCHANGED <<heatingVars, correctionVars, filledVars, tariffVars,
                   extraVars>>

\* main.py lines 270-293
ProcessHeating ==
    /\ opc = "heating"
    /\ IF ~AnyOf(<<osv_accural.heating, osv_accural.reaccural,
                   osv_accural.payment>>)
       THEN UNCHANGED <<rows, seen_opening_balance>>
       ELSE \E price \in Tariffs :
            LET det == instances[account].records[HEATING]
                built == IF HasRow(det, osv_date)
                         THEN <<HeatingResultRow(osv_date, account,
                                                 osv_accural, det, price)>>
                         ELSE <<>>
                opening == add_initial_balance_row(seen_opening_balance,
                                                   osv_date, account, HEATING)
            IN  /\ rows' = rows \o built \o opening.rows
                /\ seen_opening_balance' = opening.seen
    /\ opc' = "gvs"
    /\ gpc' = "start"
    /\ UNCHANGED <<instances, osv_rows, osv_accural, GvsIpuInstallDates>>
    /\ UNCHANGED <<osv_date, year_correction, wpc, correction_type,
                   account_closing_month, month_num, total_closing_balance,
                   total_future_installment>>
    /\ UNCHANGED <<reaccuralVars, heatingVars, correctionVars, filledVars,
                   tariffVars, extraVars>>

\* main.py lines 440-469
ProcessGvsElevated ==
    /\ opc = "gvs"
    /\ gpc \in {"returned", "done"}
    /\ LET gvs_details_rows ==
               as_filtered_list(gvs, <<"account">>, TupleOf(account))
       IN  IF Len(gvs_details_rows) = 0
           THEN UNCHANGED <<rows, seen_opening_balance>>
           ELSE \E price \in Tariffs :
                LET det == instances[account].records[GVS_ELEVATED]
                    row == GvsElevatedResultRow(osv_date, account,
                               osv_accural, det, gvs_details_rows[1], price,
                               GvsIpuInstallDates)
                    built == IF ZeroData(row) THEN <<>> ELSE <<row>>
                    opening == add_initial_balance_row(
                                   seen_opening_balance, osv_date, account,
                                   GVS_ELEVATED)
                IN  /\ rows' = rows \o built \o opening.rows
                    /\ seen_opening_balance' = opening.seen
    /\ opc' = "next"
    /\ UNCHANGED <<instances, osv_rows, osv_accural, GvsIpuInstallDates,
                   gpc>>
    /\ UNCHANGED <<osv_date, year_correction, wpc, correction_type,
                   account_closing_month, month_num, total_closing_balance,
                   total_future_installment>>
    /\ UNCHANGED <<reaccuralVars, heatingVars, correctionVars, filledVars,
                   tariffVars, extraVars>>

NextMonths ==
    \/ NextOsvRow
    \/ ProcessHeating
    \/ ProcessGvs
    \/ ProcessGvsElevated

InitMonths ==
    /\ instances = <<>>
    /\ opc = "next"
    /\ osv_rows = 0
    /\ details = <<>>
    /\ gvs = <<>>
    /\ account = GvsAccount
    /\ osv_accural = NoAccural
    /\ GvsIpuInstallDates = <<>>
    /\ seen_opening_balance = <<>>
    /\ gpc = "idle"
    /\ osv_date = ReaccuralDate
    /\ year_correction = 0
    /\ wpc = "idle"
    /\ correction_type = {}
    /\ account_closing_month = 0
    /\ month_num = 0
    /\ total_closing_balance = 0
    /\ total_future_installment = 0
    /\ rows = <<>>
    /\ ObjectNew
    /\ HeatingIdle
    /\ CorrectionIdle
    /\ FilledIdle
    /\ TariffIdle
    /\ ExtraIdle

SpecMonths == InitMonths /\ [][NextMonths]_vars

\* the places in the sheet of the rows of a kind, an account and a service
OpeningRows(acc, service) ==
    {i \in 1..Len(rows) :
        /\ rows[i].kind = "OPENING_BALANCE"
        /\ rows[i].account = acc
        /\ rows[i].service = service}

AccuralRows(kind, acc) ==
    {i \in 1..Len(rows) : rows[i].kind = kind /\ rows[i].account = acc}

\* C17: however many months of a run refer to a service of an account, the
\* calculations sheet holds at most one opening balance row of that account
\* and service.
C17_OneOpeningRow ==
    \A acc \in RunAccounts, service \in Services :
        Cardinality(OpeningRows(acc, service)) <= 1

\* two months of one account have both added a GVS row, and the sheet
\* holds the one opening balance row of the first
C17_Witness ==
    \E i, j \in AccuralRows(GVS_ACCURAL, GvsAccount) :
        /\ rows[i].date # rows[j].date
        /\ Cardinality(OpeningRows(GvsAccount, GVS)) = 1
        /\ \A k \in OpeningRows(GvsAccount, GVS) :
              rows[k].date = rows[i].date /\ i < j

AccuralKinds == {HEATING_ACCURAL, GVS_ACCURAL, GVS_ELEVATED}

\* C18: no heating, GVS or GVS elevated accrual row whose accrual, payment
\* and closing balance are all zero is ever appended to the calculations
\* sheet.
C18_Original ==
    \A i \in 1..Len(rows) :
        rows[i].kind \in AccuralKinds => ~ZeroData(rows[i])

(***************************************************************************)
(* lib/buildingsfile.py: the buildings table and BuildingsFile.get_tariff. *)
(* Tariffs and coefficients are in mills; what get_tariff returns is in    *)
(* millionths, the product of a tariff and a coefficient being exact.      *)
(* An address is given as the street and the house that ADDRESS_REGEXP     *)
(* finds in it, a sheet by the year that is its title.                     *)
(***************************************************************************)
Micro(mills) == mills * 1000

\* lines 20-38: the three amounts are quantized when the record is made
BuildingRecord(street, house, tariff_first, tariff_second, coefficient) ==
    [street |-> street,
     house |-> house,
     tariff_first |-> Quantize(tariff_first),
     tariff_second |-> Quantize(tariff_second),
     coefficient |-> Quantize(coefficient)]

\* one item of the "|"-separated string: blank, or "mm.yyyy:value"
BlankItem == [blank |-> TRUE, date |-> MonthYear(0, 0), value |-> 0]
SpecialItem(date0, value) == [blank |-> FALSE, date |-> date0, value |-> value]

\* lines 54-63: the items from the k-th on, a later one replacing an
\* earlier one of the same date
RECURSIVE SpecialTariffs(_, _, _)
SpecialTariffs(items, k, out) ==
    IF k > Len(items) THEN out
    ELSE IF items[k].blank THEN SpecialTariffs(items, k + 1, out)
    ELSE SpecialTariffs(items, k + 1,
             [d \in DOMAIN out \cup {items[k].date} |->
                 IF d = items[k].date THEN items[k].value ELSE out[d]])

\* lines 44-64, BuildingsFile.__init__; tariffs_special is None by default
NoSpecialTariffs == <<>>

BuildingsFile(sheets, tariffs_special) ==
    [sheets |-> sheets,
     tariff_special |-> SpecialTariffs(tariffs_special, 1, <<>>)]

\* lines 72-89; self.sheets[sheet_name] of a title that is not there is a
\* KeyError
get_address_row(bf, address, sheet_name) ==
    IF sheet_name \notin DOMAIN bf.sheets
    THEN [raised |-> "KeyError", rows |-> <<>>]
    ELSE LET found == as_filtered_list(bf.sheets[sheet_name],
                          <<"street", "house">>,
                          <<address.street, address.house>>)
         IN  IF Len(found) = 0
             THEN [raised |-> "NoAddressRow", rows |-> <<>>]
             ELSE [raised |-> "", rows |-> <<found[1]>>]

\* line 100
HalfYearTariffBefore6(row, date0) ==
    IF date0.month < 6 THEN row.tariff_first ELSE row.tariff_second
HalfYearTariff(row, date0) ==
    IF date0.month < 7 THEN row.tariff_first ELSE row.tariff_second

\* lines 91-103; the cache keeps what a call returned, and neither the
\* sheets nor the special tariffs change after __init__
get_tariff(bf, address, date0, use_reduction_factor) ==
    LET got == get_address_row(bf, address, date0.year)
    IN  IF got.raised # "" THEN [raised |-> got.raised, value |-> 0]
        ELSE
        LET row == got.rows[1]
            tariff == HalfYearTariff(row, date0)
        IN  IF date0 \in DOMAIN bf.tariff_special
            THEN [raised |-> "", value |-> Micro(bf.tariff_special[date0])]
            ELSE [raised |-> "",
                  value |-> IF use_reduction_factor
                            THEN tariff * row.coefficient
                            ELSE Micro(tariff)]

MaxBuildingRows == 2
Street == <<"s", "1">>
Addresses == {[street |-> Street, house |-> h] : h \in {"1", "2"}}
TariffDates == {MonthYear(m, y) : m \in {6, 7}, y \in {2022, 2023}}

BuildingRecords ==
    {BuildingRecord(Street, "1", 1005, 2015, 850),
     BuildingRecord(Street, "1", 3000, 4000, 1000),
     BuildingRecord(Street, "3", 5000, 6000, 500)}

BuildingSheets ==
    UNION {[1..n -> BuildingRecords] : n \in 0..MaxBuildingRows}

Workbooks ==
    UNION {[years -> BuildingSheets] : years \in {{2023}, {2022, 2023}}}

SpecialStrings ==
    {NoSpecialTariffs,
     <<SpecialItem(MonthYear(6, 2023), 1500)>>,
     <<BlankItem, SpecialItem(MonthYear(7, 2023), 1500),
       SpecialItem(MonthYear(7, 2023), 1700)>>}

GetTariff ==
    /\ tpc = "made"
    /\ \E address \in Addresses, date0 \in TariffDates,
          use_reduction_factor \in BOOLEAN :
          /\ query' = [address |-> address, date |-> date0,
                       use_reduction_factor |-> use_reduction_factor]
          /\ returned' = get_tariff(buildings, address, date0,
                                    use_reduction_factor)
    /\ tpc' = "asked"
    /\ UNCHANGED <<conf, workbook, buildings, result_row>>
    /\ UNCHANGED <<reaccuralVars, heatingVars, walkVars, correctionVars,
                   gvsVars, filledVars, monthVars, extraVars>>

NextTariff == GetTariff

InitTariff ==
    /\ conf = <<>>
    /\ workbook \in Workbooks
    /\ \E tariffs_special \in SpecialStrings :
          buildings = BuildingsFile(workbook, tariffs_special)
    /\ query = <<>>
    /\ returned = <<>>
    /\ result_row = <<>>
    /\ tpc = "made"
    /\ details = <<>>
    /\ gvs = <<>>
    /\ account = GvsAccount
    /\ ObjectNew
    /\ HeatingIdle
    /\ WalkIdle
    /\ CorrectionIdle
    /\ GvsIdle
    /\ FilledIdle
    /\ MonthIdle
    /\ ExtraIdle

SpecTariff == InitTariff /\ [][NextTariff]_vars

\* the places of the building's records on the sheet of a year
OwnRecords(year) ==
    {i \in 1..Len(buildings.sheets[year]) :
        /\ buildings.sheets[year][i].street = query.address.street
        /\ buildings.sheets[year][i].house = query.address.house}

First(S) == CHOOSE i \in S : \A j \in S : i <= j

\* what the claim says the call returns for a building that has a record
TariffOfRecord ==
    LET row == buildings.sheets[query.date.year][
                   First(OwnRecords(query.date.year))]
        tariff == IF query.date.month \in 1..6 THEN row.tariff_first
                  ELSE row.tariff_second
    IN  /\ returned.raised = ""
        /\ returned.value =
             IF query.date \in DOMAIN buildings.tariff_special
             THEN Micro(buildings.tariff_special[query.date])
             ELSE IF query.use_reduction_factor
             THEN tariff * row.coefficient
             ELSE Micro(tariff)

HasRecord ==
    /\ query.date.year \in DOMAIN buildings.sheets
    /\ OwnRecords(query.date.year) # {}

RegionDirInit ==
    /\ tpc = "new"
    /\ buildings' = BuildingsFile(workbook, NoSpecialTariffs)
    /\ tpc' = "made"
    /\ UNCHANGED <<conf, workbook, query, returned, result_row>>
    /\ UNCHANGED <<reaccuralVars, heatingVars, walkVars, correctionVars,
                   gvsVars, filledVars, monthVars, extraVars>>

\* BaseResultRow.__init__: the fields 0, 1, 6, 7 and 8 of a row
BaseResultRow(date0, price0) ==
    [f00 |-> date0.month, f01 |-> date0.year,
     f06 |-> date0.month, f07 |-> date0.year, f08 |-> price0]

BaseResultRowInit ==
    /\ tpc = "made"
    /\ \E address \in Addresses, date0 \in TariffDates,
          use_reduction_factor \in BOOLEAN :
          LET got == get_tariff(buildings, address, date0,
                                use_reduction_factor)
          IN  /\ query' = [address |-> address, date |-> date0,
                           use_reduction_factor |-> use_reduction_factor]
              /\ returned' = got
              /\ result_row' = IF got.raised # "" THEN <<>>
                               ELSE BaseResultRow(date0, got.value)
    /\ tpc' = "asked"
    /\ UNCHANGED <<conf, workbook, buildings>>
    /\ UNCHANGED <<reaccuralVars, heatingVars, walkVars, correctionVars,
                   gvsVars, filledVars, monthVars, extraVars>>

NextRegion == RegionDirInit \/ BaseResultRowInit

InitRegion ==
    /\ conf \in SpecialStrings
    /\ workbook \in Workbooks
    /\ buildings = <<>>
    /\ query = <<>>
    /\ returned = <<>>
    /\ result_row = <<>>
    /\ tpc = "new"
    /\ details = <<>>
    /\ gvs = <<>>
    /\ account = GvsAccount
    /\ ObjectNew
    /\ HeatingIdle
    /\ WalkIdle
    /\ CorrectionIdle
    /\ GvsIdle
    /\ FilledIdle
    /\ MonthIdle
    /\ ExtraIdle

SpecRegion == InitRegion /\ [][NextRegion]_vars

\* the special tariffs that the region's configuration defines
ConfTariffs == SpecialTariffs(conf, 1, <<>>)

\* C20: a row that the run prices for a period for which the region's
\* configuration defines a special tariff carries that tariff in field 8.
C20_Original ==
    (/\ tpc = "asked"
     /\ returned.raised = ""
     /\ query.date \in DOMAIN ConfTariffs)
    => result_row.f08 = Micro(ConfTariffs[query.date])

(***************************************************************************)
(* lib/detailsfile.py lines 130-188: the queries of an account's details,  *)
(* over the records as the file holds them, a month and service possibly   *)
(* more than once.                                                         *)
(***************************************************************************)
AccountDetailsRecord(date0, service, accural) ==
    [date |-> date0, service |-> service, accural |-> accural]

\* lines 130-145, _get_month_service_row; the cache keeps the row of the
\* last call that returned, and the records do not change
get_month_service_row_first(recs, date0, service) ==
    LET Matches(r) == r.date = date0 /\ r.service = service
        result == SelectSeq(recs, Matches)
    IN  IF Len(result) = 0 THEN [raised |-> "NoServiceRow", rows |-> <<>>]
        ELSE [raised |-> "", rows |-> <<result[1]>>]
get_month_service_row(recs, date0, service) ==
    LET Matches(r) == r.date = date0 /\ r.service = service
        result == SelectSeq(recs, Matches)
    IN  IF Len(result) = 0 THEN [raised |-> "NoServiceRow", rows |-> <<>>]
        ELSE IF Len(result) = 1 THEN [raised |-> "", rows |-> result]
        ELSE [raised |-> "ValueError", rows |-> <<>>]

\* lines 163-174: the months from the given one on, after the values res
RECURSIVE YearAccuralsFrom(_, _, _, _, _)
YearAccuralsFrom(recs, year, service, month, res) ==
    IF month > 12 THEN [raised |-> "", res |-> res]
    ELSE LET got == get_month_service_row(recs, MonthYear(month, year),
                                          service)
         IN  IF got.raised = ""
             THEN YearAccuralsFrom(recs, year, service, month + 1,
                                   Append(res, got.rows[1].accural))
             ELSE IF got.raised = "NoServiceRow"
             THEN YearAccuralsFrom(recs, year, service, month + 1,
                                   Append(res, 0))
             ELSE [raised |-> got.raised, res |-> <<>>]

get_service_year_accurals(recs, year, service) ==
    YearAccuralsFrom(recs, year, service, 1, <<>>)

\* lines 185-188: for i in range(10, -1, -1), the first accural that is
\* not zero gives i + 1
LastAccuralMonthFirst(accurals) ==
    LET used == {m \in 1..11 : accurals[m] # 0}
    IN  IF used = {} THEN 0 ELSE CHOOSE m \in used : \A n \in used : m <= n
LastAccuralMonth(accurals) ==
    LET used == {m \in 1..11 : accurals[m] # 0}
    IN  IF used = {} THEN 0 ELSE CHOOSE m \in used : \A n \in used : n <= m

\* lines 176-188
service_closing_month(recs, year, servce) ==
    LET got == get_service_year_accurals(recs, year, servce)
    IN  IF got.raised # "" THEN [raised |-> got.raised, value |-> 0]
        ELSE IF got.res[12] # 0 THEN [raised |-> "", value |-> -1]
        ELSE [raised |-> "", value |-> LastAccuralMonth(got.res)]

MaxHistoryRows == 3
HistoryMonths == {3, 11, 12}
HistoryYears == {CurrentYear - 1, CurrentYear}
HistoryServices == {HEATING, GVS}

HistoryRecords ==
    {AccountDetailsRecord(MonthYear(m, CurrentYear), s, a) :
        m \in HistoryMonths, s \in HistoryServices, a \in {0, 10}}

Histories == UNION {[1..n -> HistoryRecords] : n \in 0..MaxHistoryRows}

GetMonthServiceRow ==
    /\ lpc = "open"
    /\ \E m \in HistoryMonths \cup {1}, s \in HistoryServices :
          /\ lookup' = [op |-> "row", date |-> MonthYear(m, CurrentYear),
                        service |-> s]
          /\ answer' = get_month_service_row(history,
                           MonthYear(m, CurrentYear), s)
    /\ lpc' = "asked"
    /\ UNCHANGED <<history, exceptLookup>>
    /\ UNCHANGED <<reaccuralVars, heatingVars, walkVars, correctionVars,
                   gvsVars, filledVars, monthVars, tariffVars>>

GetServiceYearAccurals ==
    /\ lpc = "open"
    /\ \E year \in HistoryYears, s \in HistoryServices :
          /\ lookup' = [op |-> "year", date |-> MonthYear(1, year),
                        service |-> s]
          /\ answer' = get_service_year_accurals(history, year, s)
    /\ lpc' = "asked"
    /\ UNCHANGED <<history, exceptLookup>>
    /\ UNCHANGED <<reaccuralVars, heatingVars, walkVars, correctionVars,
                   gvsVars, filledVars, monthVars, tariffVars>>

GetServiceClosingMonth ==
    /\ lpc = "open"
    /\ \E year \in HistoryYears, s \in HistoryServices :
          /\ lookup' = [op |-> "closing", date |-> MonthYear(1, year),
                        service |-> s]
          /\ answer' = service_closing_month(history, year, s)
    /\ lpc' = "asked"
    /\ UNCHANGED <<history, exceptLookup>>
    /\ UNCHANGED <<reaccuralVars, heatingVars, walkVars, correctionVars,
                   gvsVars, filledVars, monthVars, tariffVars>>

NextLookup ==
    \/ GetMonthServiceRow
    \/ GetServiceYearAccurals
    \/ GetServiceClosingMonth

InitLookup ==
    /\ history \in Histories
    /\ lookup = <<>>
    /\ answer = <<>>
    /\ lpc = "open"
    /\ details = <<>>
    /\ gvs = <<>>
    /\ account = GvsAccount
    /\ ObjectNew
    /\ HeatingIdle
    /\ WalkIdle
    /\ CorrectionIdle
    /\ GvsIdle
    /\ FilledIdle
    /\ MonthIdle
    /\ TariffIdle
    /\ IdleExceptLookup

SpecLookup == InitLookup /\ [][NextLookup]_vars

\* the places in the details of the rows of a month and service
MatchingRows(date0, service) ==
    {i \in 1..Len(history) :
        history[i].date = date0 /\ history[i].service = service}

\* a month of the year asked about has more than one row of the service
YearHasDouble ==
    \E m \in 1..12 :
        Cardinality(MatchingRows(MonthYear(m, lookup.date.year),
                                 lookup.service)) > 1

\* C21: the lookup of a month and service returns the row when exactly one
\* row matches, raises NoServiceRow when none does and ValueError when
\* more than one does; the year's accruals and the closing month raise
\* that ValueError too when a month of the year has more than one row.
C21_Lookup ==
    lpc = "asked" =>
        IF lookup.op = "row"
        THEN LET rows0 == MatchingRows(lookup.date, lookup.service)
             IN  IF Cardinality(rows0) = 0
                 THEN answer.raised = "NoServiceRow"
                 ELSE IF Cardinality(rows0) = 1
                 THEN /\ answer.raised = ""
                      /\ \A i \in rows0 : answer.rows = <<history[i]>>
                 ELSE answer.raised = "ValueError"
        ELSE (YearHasDouble <=> answer.raised = "ValueError")
             /\ answer.raised \in {"", "ValueError"}

\* the closing month asked of a year whose December has two rows of the
\* service, while another month has none
C21_Witness ==
    /\ lpc = "asked"
    /\ lookup.op = "closing"
    /\ answer.raised = "ValueError"
    /\ Cardinality(MatchingRows(MonthYear(12, lookup.date.year),
                                lookup.service)) = 2
    /\ MatchingRows(MonthYear(3, lookup.date.year), lookup.service) = {}

\* the accrual of a month of the year asked about, 0 without a row
AccuralOfMonth(m) ==
    LET rows0 == MatchingRows(MonthYear(m, lookup.date.year), lookup.service)
    IN  IF rows0 = {} THEN 0
        ELSE history[CHOOSE i \in rows0 : TRUE].accural

\* C22: the year's accruals, when returned, are 12 values, 0 for a month
\* without a row; the closing month is -1 exactly when December's accrual
\* is not zero, otherwise the last of the months 1 to 11 with an accrual
\* that is not zero, and 0 when there is none.
C22_YearAndClosing ==
    (lpc = "asked" /\ answer.raised = "") =>
        /\ lookup.op = "year" =>
              /\ Len(answer.res) = 12
              /\ \A m \in 1..12 : answer.res[m] = AccuralOfMonth(m)
        /\ lookup.op = "closing" =>
              /\ answer.value \in {-1} \cup 0..11
              /\ answer.value = -1 <=> AccuralOfMonth(12) # 0
              /\ answer.value \in 1..11 =>
                    /\ AccuralOfMonth(answer.value) # 0
                    /\ \A m \in (answer.value + 1)..12 : AccuralOfMonth(m) = 0
              /\ answer.value = 0 => \A m \in 1..12 : AccuralOfMonth(m) = 0

\* a closing month of 3 in a year that has a row without accrual for a
\* later month
C22_Witness ==
    /\ lpc = "asked"
    /\ lookup.op = "closing"
    /\ answer.raised = ""
    /\ answer.value = 3
    /\ MatchingRows(MonthYear(11, lookup.date.year), lookup.service) # {}

(***************************************************************************)
(* lib/helpers.py lines 209-222, SingletonWithArg: the objects of the      *)
(* classes AccountDetailsFileSingleton and GvsDetailsFileSingleton.  An    *)
(* object is known by the number of the call that made it.                 *)
(***************************************************************************)
MaxCalls == 3

\* line 217, key = (cls, arg)
SingletonKeyOfArg(cls, arg) == <<arg>>
SingletonKey(cls, arg) == <<cls, arg>>

SingletonClasses ==
    {"AccountDetailsFileSingleton", "GvsDetailsFileSingleton"}
SingletonArgs == {"12", "13"}
FileNames == {"a.xlsx", "b.xlsx"}

\* lines 216-222, SingletonWithArg.__call__; the other arguments reach
\* __init__ only, and an __init__ that raises leaves _instances as it was
SingletonCall ==
    /\ Len(calls) < MaxCalls
    /\ \E cls \in SingletonClasses, arg \in SingletonArgs,
          filename \in FileNames, file_found \in BOOLEAN :
          LET key == SingletonKey(cls, arg)
              call == [cls |-> cls, arg |-> arg, filename |-> filename]
          IN  IF key \in DOMAIN singletons
              THEN /\ calls' = Append(calls,
                        [call |-> call, init |-> FALSE, raised |-> FALSE,
                         object |-> singletons[key]])
                   /\ UNCHANGED singletons
              ELSE IF ~file_found
              THEN /\ calls' = Append(calls,
                        [call |-> call, init |-> TRUE, raised |-> TRUE,
                         object |-> 0])
                   /\ UNCHANGED singletons
              ELSE /\ calls' = Append(calls,
                        [call |-> call, init |-> TRUE, raised |-> FALSE,
                         object |-> Len(calls) + 1])
                   /\ singletons' =
                        [k \in DOMAIN singletons \cup {key} |->
                            IF k = key THEN Len(calls) + 1
                            ELSE singletons[k]]
    /\ UNCHANGED exceptSingleton
    /\ UNCHANGED <<reaccuralVars, heatingVars, walkVars, correctionVars,
                   gvsVars, filledVars, monthVars, tariffVars>>

NextSingleton == SingletonCall

InitSingleton ==
    /\ singletons = <<>>
    /\ calls = <<>>
    /\ IdleExceptSingleton
    /\ details = <<>>
    /\ gvs = <<>>
    /\ account = GvsAccount
    /\ ObjectNew
    /\ HeatingIdle
    /\ WalkIdle
    /\ CorrectionIdle
    /\ GvsIdle
    /\ FilledIdle
    /\ MonthIdle
    /\ TariffIdle

SpecSingleton == InitSingleton /\ [][NextSingleton]_vars

SameProvider(i, j) ==
    /\ calls[i].call.cls = calls[j].call.cls
    /\ calls[i].call.arg = calls[j].call.arg

\* C23: of the calls for one class and account at most one has its
\* __init__ return; every call after it returns the object it made,
\* whatever the file name given, without running __init__; a call whose
\* __init__ raises leaves nothing behind, so the next call for the class
\* and account runs __init__ again; calls for another class or another
\* account never return that object.
C23_OneInstance ==
    \A i, j \in 1..Len(calls) :
        /\ (i < j /\ SameProvider(i, j) /\ ~calls[i].raised)
           => /\ ~calls[j].init
              /\ ~calls[j].raised
              /\ calls[j].object = calls[i].object
        /\ (/\ i < j /\ SameProvider(i, j) /\ calls[i].raised
            /\ \A k \in (i + 1)..(j - 1) : ~SameProvider(i, k))
           => calls[j].init
        /\ (~SameProvider(i, j) /\ ~calls[i].raised /\ ~calls[j].raised)
           => calls[j].object # calls[i].object

\* an __init__ that raised, then one that returned, then a call with
\* another file name that is given the object, all for one account
C23_Witness ==
    /\ Len(calls) = 3
    /\ SameProvider(1, 2) /\ SameProvider(2, 3)
    /\ calls[1].raised
    /\ calls[2].init /\ ~calls[2].raised
    /\ calls[3].call.filename # calls[2].call.filename
    /\ calls[3].object = calls[2].object

(***************************************************************************)
(* The run of the program, main.py lines 795-836: one RegionDir per        *)
(* section of the config, its OSV files read row by row, the two passes    *)
(* over the results when calculations are filled, and the save.  A row of  *)
(* an OSV file is taken by what its cells make the handlers of             *)
(* _process_osv do: the address cell, the heating row of the month in the  *)
(* account's details, and the installment walk of the correction month.    *)
(***************************************************************************)
MaxSections == 2
MaxOsvFiles == 2
MaxFileRows == 2

\* the names of the OSV files: month and year, basename(s)[0:2] and [2:6]
OsvNames == {[month |-> 12, year |-> 2023], [month |-> 1, year |-> 2024],
             [month |-> 2, year |-> 2024]}

\* os.listdir gives the files of the directory in any order
Listings ==
    {l \in UNION {[1..n -> OsvNames] : n \in 1..MaxOsvFiles} :
        \A i, j \in DOMAIN l : i # j => l[i] # l[j]}

\* main.py line 144: key=lambda s: (basename(s)[2:6], basename(s)[0:2])
OsvKeyLt(a, b) ==
    \/ a.year < b.year
    \/ a.year = b.year /\ a.month < b.month

RECURSIVE InsertOsv(_, _)
InsertOsv(sorted, file) ==
    IF sorted = <<>> THEN <<file>>
    ELSE IF OsvKeyLt(file, Head(sorted)) THEN <<file>> \o sorted
    ELSE <<Head(sorted)>> \o InsertOsv(Tail(sorted), file)

RECURSIVE SortedOsvFiles(_)
SortedOsvFiles(listing) ==
    IF listing = <<>> THEN <<>>
    ELSE InsertOsv(SortedOsvFiles(SubSeq(listing, 1, Len(listing) - 1)),
                   listing[Len(listing)])

\* main.py lines 138-146: the sorted files, cut to conf["max_osv_files"]
OsvFiles(listing, max_osv_files) ==
    SubSeq(SortedOsvFiles(listing), 1, Min(max_osv_files, Len(listing)))

CompleteRow == [address |-> "known", heating |-> "row", walk |-> "none"]

\* the rows an OSV file may hold: the complete row, and the rows that
\* depart from it in one cell or one query
OsvRows ==
    {CompleteRow}
    \cup {[CompleteRow EXCEPT !.address = a] :
             a \in {"unknown_format", "no_building"}}
    \cup {[CompleteRow EXCEPT !.heating = "NoServiceRow"]}
    \cup {[CompleteRow EXCEPT !.walk = w] : w \in {"rows", "NoServiceRow"}}

\* main.py lines 192-216, _init_current_osv_row, with get_instance of
\* lib/osvfile.py lines 55-63: an address no expression matches raises
\* ValueError, and the handler of line 213 names AttributeError only
init_current_osv_row(row) ==
    IF row.address = "unknown_format"
    THEN [raised |-> "ValueError", osv |-> <<>>]
    ELSE IF row.address = "no_building"
    THEN [raised |-> "", osv |-> <<>>]
    ELSE [raised |-> "", osv |-> <<row>>]

\* main.py lines 270-293, _process_heating: NoServiceRow is caught
process_heating(row) ==
    IF row.heating = "NoServiceRow"
    THEN [raised |-> "", rows |-> <<>>]
    ELSE [raised |-> "", rows |-> <<"HEATING_ACCURAL">>]

\* main.py lines 483-556 with 558-663: the query of line 573 is made
\* outside every try, and _process_heating_correction has none around
\* the walk
process_heating_correction(row) ==
    IF row.walk = "none" THEN [raised |-> "", rows |-> <<>>]
    ELSE IF row.walk = "NoServiceRow"
    THEN [raised |-> "NoServiceRow", rows |-> <<>>]
    ELSE [raised |-> "", rows |-> <<"HEATING_POSITIVE_CORRECTION">>]

\* main.py lines 721-761, the body of the loop of _process_osv
process_osv_row(row, fill_calculations) ==
    LET made == init_current_osv_row(row)
    IN  IF made.raised # "" THEN [raised |-> made.raised, rows |-> <<>>]
        ELSE IF made.osv = <<>> \/ ~fill_calculations
        THEN [raised |-> "", rows |-> <<>>]
        ELSE LET heating == process_heating(row)
                 correction == process_heating_correction(row)
             IN  [raised |-> correction.raised,
                  rows |-> heating.rows \o correction.rows]

ResultRow(kind) == [file |-> file_num, line |-> line_num + 1, kind |-> kind]

RECURSIVE ResultRows(_)
ResultRows(kinds) ==
    IF kinds = <<>> THEN <<>>
    ELSE <<ResultRow(Head(kinds))>> \o ResultRows(Tail(kinds))

\* main.py lines 806-811: the next section of the config, and
\* RegionDir.__init__ of lines 100-153
StartSection ==
    /\ rpc = "main"
    /\ section < MaxSections
    /\ \E listing \in Listings, max_osv_files \in 1..MaxOsvFiles,
          fill_calculations \in BOOLEAN :
          region' = [osv_files |-> OsvFiles(listing, max_osv_files),
                     fill_calculations |-> fill_calculations]
    /\ section' = section + 1
    /\ file_num' = 0
    /\ line_num' = 0
    /\ osv' = <<>>
    /\ results' = <<>>
    /\ passes' = <<>>
    /\ rpc' = "read_osvs"
    /\ UNCHANGED <<saved, log, exception>>
    /\ UNCHANGED exceptRun
    /\ UNCHANGED <<reaccuralVars, heatingVars, walkVars, correctionVars,
                   gvsVars, filledVars, monthVars, tariffVars>>

\* main.py line 806: the sections of the config are exhausted
EndOfSections ==
    /\ rpc = "main"
    /\ section > 0
    /\ rpc' = "exit"
    /\ UNCHANGED <<section, region, file_num, line_num, osv, results, passes,
                   saved, log, exception>>
    /\ UNCHANGED exceptRun
    /\ UNCHANGED <<reaccuralVars, heatingVars, walkVars, correctionVars,
                   gvsVars, filledVars, monthVars, tariffVars>>

\* main.py lines 766-768 and 720-721: the next file of region.osv_files
OpenOsv ==
    /\ rpc = "read_osvs"
    /\ file_num < Len(region.osv_files)
    /\ file_num' = file_num + 1
    /\ line_num' = 0
    /\ rpc' = "process_osv"
    /\ UNCHANGED <<section, region, osv, results, passes, saved, log,
                   exception>>
    /\ UNCHANGED exceptRun
    /\ UNCHANGED <<reaccuralVars, heatingVars, walkVars, correctionVars,
                   gvsVars, filledVars, monthVars, tariffVars>>

\* main.py lines 722-761, one row of the file; an exception leaves
\* _process_osv, read_osvs logs it as critical and raises it again (lines
\* 769-771), and __main__ has no handler, so the program ends with it
ProcessOsvRow ==
    /\ rpc = "process_osv"
    /\ line_num < MaxFileRows
    /\ \E row \in OsvRows :
          LET done == process_osv_row(row, region.fill_calculations)
          IN  /\ osv' = <<row>>
              /\ results' = results \o ResultRows(done.rows)
              /\ IF done.raised # ""
                 THEN /\ log' = Append(log, "critical")
                      /\ exception' = done.raised
                      /\ rpc' = "exit"
                 ELSE UNCHANGED <<log, exception, rpc>>
    /\ line_num' = line_num + 1
    /\ UNCHANGED <<section, region, file_num, passes, saved>>
    /\ UNCHANGED exceptRun
    /\ UNCHANGED <<reaccuralVars, heatingVars, walkVars, correctionVars,
                   gvsVars, filledVars, monthVars, tariffVars>>

\* main.py line 762 and 772-773: the rows of the file are exhausted
EndOfOsv ==
    /\ rpc = "process_osv"
    /\ rpc' = "read_osvs"
    /\ UNCHANGED <<section, region, file_num, line_num, osv, results, passes,
                   saved, log, exception>>
    /\ UNCHANGED exceptRun
    /\ UNCHANGED <<reaccuralVars, heatingVars, walkVars, correctionVars,
                   gvsVars, filledVars, monthVars, tariffVars>>

\* main.py lines 812-815: read_osvs returned
EndOfOsvFiles ==
    /\ rpc = "read_osvs"
    /\ file_num = Len(region.osv_files)
    /\ rpc' = IF region.fill_calculations THEN "replacements" ELSE "save"
    /\ UNCHANGED <<section, region, file_num, line_num, osv, results, passes,
                   saved, log, exception>>
    /\ UNCHANGED exceptRun
    /\ UNCHANGED <<reaccuralVars, heatingVars, walkVars, correctionVars,
                   gvsVars, filledVars, monthVars, tariffVars>>

\* main.py lines 816-822: the pass that finds the replacements
RunReplacements ==
    /\ rpc = "replacements"
    /\ passes' = Append(passes, "find_gvs_ipu_replacements")
    /\ rpc' = "balance"
    /\ UNCHANGED <<section, region, file_num, line_num, osv, results, saved,
                   log, exception>>
    /\ UNCHANGED exceptRun
    /\ UNCHANGED <<reaccuralVars, heatingVars, walkVars, correctionVars,
                   gvsVars, filledVars, monthVars, tariffVars>>

\* main.py lines 823-832: the pass that decreases the closing balance; it
\* raises ValueError on two accurals of one account and date
\* (lib/filledresultfile.py lines 257-261), and __main__ wraps the
\* section in try/finally only, so nothing logs the exception
RunBalance ==
    /\ rpc = "balance"
    /\ \E too_many \in BOOLEAN :
          IF too_many
          THEN /\ exception' = "ValueError"
               /\ rpc' = "exit"
               /\ UNCHANGED passes
          ELSE /\ passes' = Append(passes, "decrease_closing_balance")
               /\ rpc' = "save"
               /\ UNCHANGED exception
    /\ UNCHANGED <<section, region, file_num, line_num, osv, results, saved,
                   log>>
    /\ UNCHANGED exceptRun
    /\ UNCHANGED <<reaccuralVars, heatingVars, walkVars, correctionVars,
                   gvsVars, filledVars, monthVars, tariffVars>>

\* main.py lines 814 and 833: region.results.save()
SaveResults ==
    /\ rpc = "save"
    /\ saved' = Append(saved, [section |-> section, passes |-> passes,
                               files |-> file_num])
    /\ rpc' = "main"
    /\ UNCHANGED <<section, region, file_num, line_num, osv, results, passes,
                   log, exception>>
    /\ UNCHANGED exceptRun
    /\ UNCHANGED <<reaccuralVars, heatingVars, walkVars, correctionVars,
                   gvsVars, filledVars, monthVars, tariffVars>>

NextRun ==
    \/ StartSection
    \/ EndOfSections
    \/ OpenOsv
    \/ ProcessOsvRow
    \/ EndOfOsv
    \/ EndOfOsvFiles
    \/ RunReplacements
    \/ RunBalance
    \/ SaveResults

InitRun ==
    /\ section = 0
    /\ region = <<>>
    /\ file_num = 0
    /\ line_num = 0
    /\ osv = <<>>
    /\ results = <<>>
    /\ passes = <<>>
    /\ saved = <<>>
    /\ log = <<>>
    /\ exception = ""
    /\ rpc = "main"
    /\ IdleExceptRun
    /\ details = <<>>
    /\ gvs = <<>>
    /\ account = GvsAccount
    /\ ObjectNew
    /\ HeatingIdle
    /\ WalkIdle
    /\ CorrectionIdle
    /\ GvsIdle
    /\ FilledIdle
    /\ MonthIdle
    /\ TariffIdle

SpecRun == InitRun /\ [][NextRun]_vars

\* C24: a NoServiceRow raised by a query of an account's details while an
\* OSV row is processed never ends the processing of the region: the
\* handler that made the query skips its rows, and no NoServiceRow leaves
\* the program.
C24_Original == exception # "NoServiceRow"

\* C25: an OSV row whose address cell matches none of the known formats is
\* skipped with a warning: it adds no row to the results, leaves no
\* exception, and the program goes on with the rows of the file.
C25_Original ==
    (osv # <<>> /\ osv[1].address = "unknown_format")
        => /\ exception = ""
           /\ rpc # "exit"
           /\ log # <<>> /\ log[Len(log)] = "warning"
           /\ \A i \in DOMAIN results :
                 ~(results[i].file = file_num /\ results[i].line = line_num)

BothPasses == <<"find_gvs_ipu_replacements", "decrease_closing_balance">>

\* the results of the section in hand were saved, after the files and the
\* passes the section called for
SavedInFull ==
    /\ Len(saved) = section
    /\ saved[section] =
          [section |-> section,
           passes |-> IF region.fill_calculations THEN BothPasses ELSE <<>>,
           files |-> Len(region.osv_files)]

\* C29: the results of a region are saved only after every OSV file of
\* the region was processed, the files taken in the order of (year,
\* month), and, when calculations are filled, after each of the two passes
\* ran once; an exception that ends the processing of a region is logged
\* as critical and raised again, the results of the region are not saved,
\* and no later region is started.
C29_Original ==
    /\ region # <<>> =>
          \A i, j \in DOMAIN region.osv_files :
              i < j => OsvKeyLt(region.osv_files[i], region.osv_files[j])
    /\ (rpc = "main" /\ section > 0) => SavedInFull
    /\ (rpc \notin {"main", "exit"} \/ exception # "") =>
          Len(saved) = section - 1
    /\ exception # "" =>
          /\ rpc = "exit"
          /\ log # <<>> /\ log[Len(log)] = "critical"

(***************************************************************************)
(* lib/datatypes.py lines 9-32: the months reached from a month by its     *)
(* properties previous and next, one taken after the other.                *)
(***************************************************************************)
MaxSteps == 2

DateYears == 2022..2024

\* lines 18-24 and 26-32: a property of the month reached last is taken
TakeProperty ==
    /\ reached # <<>>
    /\ Len(taken) < MaxSteps
    /\ \E property \in {"previous", "next"} :
          /\ taken' = Append(taken, property)
          /\ reached' = Append(reached,
                IF property = "previous" THEN previous(reached[Len(reached)])
                ELSE next(reached[Len(reached)]))
    /\ UNCHANGED exceptDate
    /\ UNCHANGED <<reaccuralVars, heatingVars, walkVars, correctionVars,
                   gvsVars, filledVars, monthVars, tariffVars>>

NextDate == TakeProperty

InitDate ==
    /\ \E m \in 1..12, y \in DateYears : reached = <<MonthYear(m, y)>>
    /\ taken = <<>>
    /\ IdleExceptDate
    /\ details = <<>>
    /\ gvs = <<>>
    /\ account = GvsAccount
    /\ ObjectNew
    /\ HeatingIdle
    /\ WalkIdle
    /\ CorrectionIdle
    /\ GvsIdle
    /\ FilledIdle
    /\ MonthIdle
    /\ TariffIdle

SpecDate == InitDate /\ [][NextDate]_vars

\* C26: for every MonthYear m with month in 1..12, m.previous.next = m and
\* m.next.previous = m, both m.previous and m.next have a month in 1..12,
\* and m.previous < m < m.next by __lt__, the order of (year, month).
C26_RoundTrip ==
    \A i \in DOMAIN taken :
        /\ reached[i + 1].month \in 1..12
        /\ IF taken[i] = "previous"
           THEN /\ MonthLt(reached[i + 1], reached[i])
                /\ ~MonthLt(reached[i], reached[i + 1])
           ELSE /\ MonthLt(reached[i], reached[i + 1])
                /\ ~MonthLt(reached[i + 1], reached[i])
        /\ (i > 1 /\ taken[i] # taken[i - 1]) => reached[i + 1] = reached[i - 1]

\* January 2023 left by previous for December 2022 and met again by next
C26_Witness ==
    /\ taken = <<"previous", "next">>
    /\ reached = <<MonthYear(1, 2023), MonthYear(12, 2022),
                   MonthYear(1, 2023)>>

(***************************************************************************)
(* The totals of the rows of a positive correction                         *)
(***************************************************************************)
\* the rows of the positive correction, in the order they were added
PositiveRows ==
    SelectSeq(rows, LAMBDA r : r.kind = "HEATING_POSITIVE_CORRECTION")

\* C27: every positive correction row added for an account (the rows of
\* the months of the walk, the closing row and the collapsed row) carries
\* a total closing balance and a total future installment that add up to
\* the year correction of the account, and a future installment is held by
\* the row of the trigger month alone, the first row of a walk.
C27_Totals ==
    \A i \in DOMAIN PositiveRows :
        /\ PositiveRows[i].total_closing_balance
               + PositiveRows[i].total_future_installment = year_correction
        /\ IF i = 1 /\ CLOSED_LAST_YEAR \notin correction_type
           THEN /\ PositiveRows[i].correction_date = osv_date
                /\ PositiveRows[i].future_installment =
                       <<year_correction
                             - Quantize(details[osv_date].reaccural)>>
           ELSE PositiveRows[i].future_installment = <<>>

\* a walk of two months and a closing row, with reaccurals on the way
C27_Witness ==
    /\ wpc = "done"
    /\ Len(PositiveRows) = 3
    /\ year_correction = 300
    /\ PositiveRows[1].future_installment = <<200>>
    /\ PositiveRows[2].total_closing_balance = 200
    /\ PositiveRows[2].total_future_installment = 100
    /\ PositiveRows[3].total_closing_balance = 300
    /\ PositiveRows[3].total_future_installment = 0

(***************************************************************************)
(* The install dates of the rows.  The pass of a region reads the table    *)
(* the run of the region wrote, and GvsIpuInstallDates as that run left    *)
(* it: for an account with two GVS records in a month, the second row of   *)
(* the month holds the reading date of its record in field 10 and leaves   *)
(* it in GvsIpuInstallDates (lib/resultfile.py lines 308-309); a row with  *)
(* a meter holds the date found there when it was built, else the default  *)
(* (line 211).                                                             *)
(***************************************************************************)
CountersIn(raw, acc) ==
    SelectSeq(records_to_class(raw, {GVS_ACCURAL}, 1),
              LAMBDA r : r.account = acc)

LastOf(S) == CHOOSE j \in S : \A i \in S : i <= j

\* the second rows of a month among the first k rows of the account
SecondRows(cs, k) == {j \in 2..k : cs[j - 1].date = cs[j].date}

\* lib/resultfile.py lines 209-211 and 308: field 10 of row k as built
BuiltInstallDate(cs, k) ==
    IF SecondRows(cs, k) # {}
          /\ (cs[k].counter_number # NoValue \/ k \in SecondRows(cs, k))
    THEN cs[LastOf(SecondRows(cs, k))].metric_date
    ELSE IF cs[k].counter_number # NoValue THEN Value(0)
    ELSE NoValue

\* the sheet with field 10 of the GVS rows as the run wrote it
BuiltSheet(raw) ==
    [n \in RowNums(raw) |->
        LET rec == raw[n - HEADER_ROW]
            cs == CountersIn(raw, rec.account)
        IN  IF rec.type_name # GVS_ACCURAL THEN SheetOf(raw)[n]
            ELSE [SheetOf(raw)[n] EXCEPT !.K =
                     BuiltInstallDate(cs,
                         CHOOSE k \in DOMAIN cs : cs[k].row_num = n)]]

\* lib/resultfile.py line 309: GvsIpuInstallDates as the run left it
RunInstallDates(raw) ==
    [acc \in {a \in {GvsAccount, OtherAccount} :
                 SecondRows(CountersIn(raw, a), Len(CountersIn(raw, a))) # {}}
        |-> LET cs == CountersIn(raw, acc)
            IN  cs[LastOf(SecondRows(cs, Len(cs)))].metric_date]

InitInstallDates ==
    /\ table_records \in GvsFilledTables
    /\ active_sheet = BuiltSheet(table_records)
    /\ runs = 0
    /\ fpc = "idle"
    /\ GvsIpuInstallDates = RunInstallDates(table_records)
    /\ osv_accural = NoAccural
    /\ seen_opening_balance = <<>>
    /\ gpc = "idle"
    /\ details = <<>>
    /\ gvs = <<>>
    /\ account = GvsAccount
    /\ ObjectNew
    /\ HeatingIdle
    /\ WalkIdle
    /\ CorrectionIdle
    /\ RestIdle

SpecInstallDates == InitInstallDates /\ [][NextReplacement]_vars

\* the replacements of the account recorded in its first k rows: the
\* second row of a month, and the later row of two rows that differ in
\* period and in meter number
RecordedReplacements(cs, k) ==
    {j \in 2..k : j \in SecondRows(cs, k) \/ DifferentPair(cs, j - 1)}

\* C28: the install date of a row of an account, as the row was built
\* (field 10) and as the pass of the region leaves it (cell K), is the
\* install date of the latest replacement recorded for the account at or
\* before the row; a row before every replacement of its account keeps
\* the install date it was built with and is never given the date of a
\* later replacement.
C28_Original ==
    runs = 1 =>
        \A acc \in FilledAccounts :
            LET cs == CountersOf(acc)
            IN  \A k \in DOMAIN cs :
                    active_sheet[cs[k].row_num].K =
                        IF RecordedReplacements(cs, k) = {}
                        THEN BuiltInstallDate(cs, k)
                        ELSE cs[LastOf(RecordedReplacements(cs, k))].metric_date

(***************************************************************************)
(* The accumulator of the heating correction rows from account to account  *)
(***************************************************************************)
\* C30: the rounding error accumulator is one value of the process that
\* only the construction of a heating correction row changes: a row is
\* built on the accumulator as it stands and leaves its own, the passage
\* to the next account leaves it as it is, and so the first row of an
\* account is built on the value the last row of the account before left.
C30_Accumulator ==
    /\ [](hpc = "row" =>
            /\ rounding_error = hrow.error_after
            /\ Len(account_rows) = 1 => hrow.error_before = error_start)
    /\ [][/\ rounding_error' # rounding_error =>
                Len(account_rows') = Len(account_rows) + 1
          /\ Len(account_rows') = Len(account_rows) + 1 =>
                hrow'.error_before = rounding_error
          /\ account_rows' = <<>> =>
                (rounding_error' = rounding_error
                    /\ error_start' = hrow.error_after)]_vars

\* the first row of an account built on what the account before left
C30_Witness ==
    /\ hpc = "row"
    /\ Len(account_rows) = 1
    /\ error_start = 4
    /\ hrow.error_before = 4
    /\ hrow.penny # 0

=============================================================================
